---- MODULE Spec2Model ----
(***************************************************************************)
(* Model of the rayTracing3D path tracer: vector algebra, ray/sphere       *)
(* intersection, nearest-hit resolution, colour arithmetic and the         *)
(* per-pixel bounce loop of Grid::trace_pixel_color / Grid::make_image.    *)
(*                                                                         *)
(* f64 values are modelled in fixed point: the integer n stands for the    *)
(* real n / ONE.  Every product is rescaled by ONE and every quotient and  *)
(* square root is rounded to the nearest representable value, as the       *)
(* floating-point unit does at its own resolution.  On lattice inputs      *)
(* whose roots are representable the arithmetic is exact.                  *)
(***************************************************************************)
EXTENDS Integers, Sequences, FiniteSets, TLC

\* ------------------------------------------------------------------------
\* f64 arithmetic in fixed point
\* ------------------------------------------------------------------------

\* one unit of length (1.0_f64)
ONE == 1000

Abs(a) == IF a < 0 THEN -a ELSE a

\* a / b rounded to the nearest integer, halves away from zero (b # 0)
RoundedQuotient(a, b) ==
    IF 2 * (a % b) >= b THEN (a \div b) + 1 ELSE a \div b

RDiv(a, b) ==
    IF (a < 0) = (b < 0) THEN RoundedQuotient(Abs(a), Abs(b))
    ELSE -RoundedQuotient(Abs(a), Abs(b))

\* product and quotient of two fixed-point numbers
FMul(a, b) == RDiv(a * b, ONE)
FDiv(a, b) == RDiv(a * ONE, b)

RECURSIVE SqrtSearch(_, _, _)
\* largest r in lo..hi-1 with r*r <= n, by bisection
SqrtSearch(n, lo, hi) ==
    IF hi - lo <= 1 THEN lo
    ELSE IF ((lo + hi) \div 2) * ((lo + hi) \div 2) <= n
    THEN SqrtSearch(n, (lo + hi) \div 2, hi)
    ELSE SqrtSearch(n, lo, (lo + hi) \div 2)

\* integer square root of n >= 0, rounded to nearest
RoundUpRoot(n, r) == IF n - r * r > r THEN r + 1 ELSE r

ISqrt(n) == RoundUpRoot(n, SqrtSearch(n, 0, 46341))

\* f64::sqrt on a fixed-point number
FSqrt(a) == ISqrt(a * ONE)

\* ------------------------------------------------------------------------
\* Point and Vector (geometry/point.rs, geometry/vector.rs)
\* ------------------------------------------------------------------------

Point(x, y, z) == [x |-> x, y |-> y, z |-> z]

\* impl Sub for &Point
PointSub(a, b) == Point(a.x - b.x, a.y - b.y, a.z - b.z)

\* impl Add<&Vector> for &Point
PointAddVector(p, v) == Point(p.x + v.x, p.y + v.y, p.z + v.z)

\* Vector::norme(x, y, z) = (x*x + y*y + z*z).sqrt()
norme(x, y, z) == ISqrt(x * x + y * y + z * z)

\* tolerance of Point equality, 1e-12: below the resolution 1 / ONE
POINT_EPS == 0

\* impl PartialEq for Point: the distance between the two is in 0 ..= 1e-12
in_tolerance(distance) == 0 <= distance /\ distance <= POINT_EPS

PointEq(a, b) == in_tolerance(norme(a.x - b.x, a.y - b.y, a.z - b.z))

\* Vector::new_from_points(origin, destination) = destination - origin
new_from_points(origin, destination) == PointSub(destination, origin)

\* Vector::new_from_coordinates
new_from_coordinates(x, y, z) == Point(x, y, z)

ErrZero == [ok |-> FALSE, err |-> "VectorHasNormeZero"]

\* (a division that hands the zero vector back as it is)
divide_unless_zero(v, n) ==
    IF n = 0 THEN [ok |-> TRUE, v |-> v]
    ELSE [ok |-> TRUE, v |-> Point(FDiv(v.x, n), FDiv(v.y, n), FDiv(v.z, n))]

\* Vector::normalize: the zero-magnitude error when norme == 0, else v / norme
divide_by_norme(v, n) ==
    IF n = 0 THEN ErrZero
    ELSE [ok |-> TRUE, v |-> Point(FDiv(v.x, n), FDiv(v.y, n), FDiv(v.z, n))]

normalize(v) == divide_by_norme(v, norme(v.x, v.y, v.z))

\* scalar_product of two vectors
scalar_product(u, v) == RDiv(u.x * v.x + u.y * v.y + u.z * v.z, ONE)

\* impl Mul<&Vector> for f64
ScalarMulVector(k, v) == Point(FMul(k, v.x), FMul(k, v.y), FMul(k, v.z))

\* impl Add for Vector
VectorAdd(u, v) == Point(u.x + v.x, u.y + v.y, u.z + v.z)

\* ------------------------------------------------------------------------
\* Sphere (geometry/shape.rs)
\* ------------------------------------------------------------------------

Sphere(center, radius) == [center |-> center, radius |-> radius]

\* Sphere::new_from_radius(center, radius): the radius is stored as given
Sphere_new_from_radius(center, radius) == Sphere(center, radius)

\* Sphere::new_from_points(center, outer): the radius is the distance
Sphere_new_from_points(center, outer) ==
    Sphere(center, norme(outer.x - center.x, outer.y - center.y, outer.z - center.z))

\* Result values of the Sphere functions
OkValue(value) == [kind |-> "Ok", value |-> value]
ErrValue(err) == [kind |-> "Err", err |-> err]

\* Vector::new_from_points as shape.rs calls it, with `?`: the zero-magnitude
\* error when the two points coincide, else destination - origin
Vector_new_from_points(origin, destination) ==
    IF norme(destination.x - origin.x, destination.y - origin.y, destination.z - origin.z) = 0
    THEN ErrZero
    ELSE [ok |-> TRUE, v |-> PointSub(destination, origin)]

\* Sphere::point_is_on_sphere: the distance to the center equals the radius
\* (the tolerance, 2 ulps or 1e-12, is below the resolution 1 / ONE)
point_is_on_sphere(sphere, point) ==
    sphere.radius =
        norme(point.x - sphere.center.x, point.y - sphere.center.y, point.z - sphere.center.z)

\* (a sign test that lets every source pass)
normal_faces_any_source(normal, point_source_vec) == TRUE

\* normal.scalar_product(&point_source_vec) >= 0.
normal_faces_source(normal, point_source_vec) ==
    scalar_product(normal, point_source_vec) >= 0

above_horizon_of(normal, point_source_vec) ==
    IF ~normal.ok THEN ErrValue(normal.err)
    ELSE IF ~point_source_vec.ok THEN ErrValue(point_source_vec.err)
    ELSE OkValue(normal_faces_source(normal.v, point_source_vec.v))

\* Sphere::source_is_above_horizon(sphere_point, source)
source_is_above_horizon(sphere, sphere_point, source) ==
    IF point_is_on_sphere(sphere, sphere_point)
    THEN above_horizon_of(Vector_new_from_points(sphere.center, sphere_point),
                          Vector_new_from_points(sphere_point, source))
    ELSE ErrValue("PointNotOnSphere")

\* impl PartialEq for Sphere: centers equal as Points, radii within 2 ulps
SphereEq(a, b) == PointEq(a.center, b.center) /\ a.radius = b.radius

\* ------------------------------------------------------------------------
\* Ray::intersect (geometry/ray.rs)
\* ------------------------------------------------------------------------

\* eps of Ray::intersect, 1e-12: below the resolution 1 / ONE
eps == 0

Ray(origin, direction) == [origin |-> origin, direction |-> direction]

NoHit == [kind |-> "None"]

HitInfo(object, point_hit, normal, hit_distance) ==
    [kind |-> "Some", object |-> object, point_hit |-> point_hit,
     normal |-> normal, hit_distance |-> hit_distance]

\* the two roots of d^2 + b d + c = 0 when delta > eps
first_distance(b, delta) == RDiv(-b - FSqrt(delta), 2)
second_distance(b, delta) == RDiv(-b + FSqrt(delta), 2)

\* the choice between the two roots fd and sd: [some, d]
choose_root(fd, sd) ==
    IF fd >= 0 /\ sd >= 0 THEN [some |-> TRUE, d |-> IF fd <= sd THEN fd ELSE sd]
    ELSE IF fd >= 0 THEN [some |-> TRUE, d |-> fd]
    ELSE [some |-> FALSE]

\* the root Ray::intersect accepts when delta > eps
accepted_root(b, delta) ==
    IF delta > eps
    THEN choose_root(first_distance(b, delta), second_distance(b, delta))
    ELSE [some |-> FALSE]

\* the coefficients b, c and the discriminant for a unit direction u
quad_b(u, center, origin) == 2 * scalar_product(u, new_from_points(center, origin))
quad_c(center, origin, radius) ==
    scalar_product(new_from_points(center, origin), new_from_points(center, origin))
        - FMul(radius, radius)
quad_delta(b, c) == FMul(b, b) - 4 * c

\* hit distance in the tangent case
tangent_distance(b) == RDiv(-b, 2)

\* the end of Ray::intersect, once hit_distance is known
hit_at(ray, shape, id, u, hit_distance) ==
    HitInfo(id,
            PointAddVector(ray.origin, ScalarMulVector(hit_distance, u)),
            new_from_points(shape.center,
                            PointAddVector(ray.origin, ScalarMulVector(hit_distance, u))),
            hit_distance)

\* Ray::intersect from `if delta < -eps` on; root is the accepted root of
\* the two-root case
intersect_cases(ray, shape, id, u, b, delta, root) ==
    IF delta < -eps THEN NoHit
    ELSE IF -eps <= delta /\ delta <= eps
    THEN hit_at(ray, shape, id, u, tangent_distance(b))
    ELSE IF root.some THEN hit_at(ray, shape, id, u, root.d)
    ELSE NoHit

\* Ray::intersect once b and c are known
intersect_quadratic(ray, shape, id, u, b, c) ==
    intersect_cases(ray, shape, id, u, b, quad_delta(b, c),
                    accepted_root(b, quad_delta(b, c)))

\* Ray::intersect once the direction is normalized (nd)
intersect_normalized(ray, shape, id, nd) ==
    IF ~nd.ok THEN [kind |-> "Err", err |-> nd.err]
    ELSE intersect_quadratic(ray, shape, id, nd.v,
                             quad_b(nd.v, shape.center, ray.origin),
                             quad_c(shape.center, ray.origin, shape.radius))

\* Ray::intersect(self, object): the object is named by `id`, its place in
\* the caller's list (the reference the HitInfo carries)
intersect(ray, shape, id) ==
    intersect_normalized(ray, shape, id, normalize(ray.direction))

\* ------------------------------------------------------------------------
\* Ray::first_point_hit_by_ray (geometry/ray.rs)
\* ------------------------------------------------------------------------

\* f64::MAX, the distance of the placeholder closest hit
F64_MAX == 2147483647

NoneObject == [some |-> FALSE]
SomeObject(o) == [some |-> TRUE, object |-> o]

\* a filter that keeps every object
keeps_every_object(object, ignore_object) == TRUE

\* the filter of first_point_hit_by_ray: the object is kept
not_ignored(object, ignore_object) ==
    IF ignore_object.some
    THEN ~SphereEq(object.shape, ignore_object.object.shape)
    ELSE TRUE

\* a comparison that lets only a strictly closer hit replace the closest
is_strictly_closer(hit_distance, closest_distance) == hit_distance < closest_distance

\* the comparison that lets a hit replace the closest one so far
is_closer(hit_distance, closest_distance) == hit_distance <= closest_distance

\* hit_info_closest_point before the scan: it borrows objects[0]
placeholder_hit ==
    HitInfo(1, Point(0, 0, 0), new_from_coordinates(ONE, 0, 0), F64_MAX)

RECURSIVE scan_objects(_, _, _, _, _, _)

\* the body of the for loop for the object at place i, hit being what
\* self.intersect(object) returned
scan_object(ray, objects, ignore_object, i, closest, has_hit, hit) ==
    IF hit.kind = "Err" THEN hit
    ELSE IF hit.kind = "None"
    THEN scan_objects(ray, objects, ignore_object, i + 1, closest, has_hit)
    ELSE IF is_closer(hit.hit_distance, closest.hit_distance)
    THEN scan_objects(ray, objects, ignore_object, i + 1, hit, TRUE)
    ELSE scan_objects(ray, objects, ignore_object, i + 1, closest, TRUE)

\* the for loop over the filtered objects, from place i on, with the locals
\* hit_info_closest_point (closest) and ray_has_hit_object (has_hit)
scan_objects(ray, objects, ignore_object, i, closest, has_hit) ==
    IF i > Len(objects)
    THEN IF has_hit THEN closest ELSE NoHit
    ELSE IF ~not_ignored(objects[i], ignore_object)
    THEN scan_objects(ray, objects, ignore_object, i + 1, closest, has_hit)
    ELSE scan_object(ray, objects, ignore_object, i, closest, has_hit,
                     intersect(ray, objects[i].shape, i))

\* Ray::first_point_hit_by_ray: the placeholder reads objects[0], so an empty
\* list panics (index out of bounds) before anything else happens
first_point_hit_by_ray(ray, objects, ignore_object) ==
    IF Len(objects) = 0 THEN [kind |-> "Panic"]
    ELSE scan_objects(ray, objects, ignore_object, 1, placeholder_hit, FALSE)

\* ------------------------------------------------------------------------
\* Sphere::source_is_visible_from_sphere_point (geometry/shape.rs)
\* ------------------------------------------------------------------------

\* Ray::new_from_points(origin, destination): the direction is not normalized
Ray_new_from_points(origin, destination) ==
    Ray(origin, new_from_points(origin, destination))

\* objects.get(sphere_index) is Some: sphere_index is a usize, counted from 0
index_is_valid(objects, sphere_index) ==
    0 <= sphere_index /\ sphere_index < Len(objects)

\* objects[sphere_index], in a sequence counted from 1
object_at(objects, sphere_index) == objects[sphere_index + 1]

\* (a search that finds nothing answers "not visible")
no_hit_is_not_visible(source, sphere_point) == OkValue(FALSE)

\* the else branch of `if let Some(hit_info)`: the search found nothing
no_hit_between(source, sphere_point) ==
    ErrValue("RayBetweenPointsDoesNotHitPoint")

\* what the search of the cast ray makes of the call
visible_by_hit(hit, sphere_point, source) ==
    IF hit.kind = "Some" THEN OkValue(PointEq(sphere_point, hit.point_hit))
    ELSE IF hit.kind = "None" THEN no_hit_between(source, sphere_point)
    ELSE hit

\* the call once the horizon test has answered
visible_by_horizon(above, objects, sphere_point, source) ==
    IF above.kind = "Err" THEN above
    ELSE IF above.value
    THEN visible_by_hit(first_point_hit_by_ray(Ray_new_from_points(source, sphere_point),
                                               objects, NoneObject),
                        sphere_point, source)
    ELSE OkValue(FALSE)

\* Sphere::source_is_visible_from_sphere_point
source_is_visible_from_sphere_point(objects, sphere_index, sphere_point, source) ==
    IF ~index_is_valid(objects, sphere_index) THEN ErrValue("NoSphereAtIndex")
    ELSE visible_by_horizon(
             source_is_above_horizon(object_at(objects, sphere_index).shape,
                                     sphere_point, source),
             objects, sphere_point, source)

\* the rays the call casts with first_point_hit_by_ray, in order
rays_cast_by_horizon(above, sphere_point, source) ==
    IF above.kind = "Ok" /\ above.value
    THEN << Ray_new_from_points(source, sphere_point) >>
    ELSE << >>

rays_cast_for_visibility(objects, sphere_index, sphere_point, source) ==
    IF ~index_is_valid(objects, sphere_index) THEN << >>
    ELSE rays_cast_by_horizon(
             source_is_above_horizon(object_at(objects, sphere_index).shape,
                                     sphere_point, source),
             sphere_point, source)

\* ------------------------------------------------------------------------
\* Ray::reflected_ray (geometry/ray.rs)
\* ------------------------------------------------------------------------

\* impl Sub for &Vector
VectorSub(u, v) == Point(u.x - v.x, u.y - v.y, u.z - v.z)

\* angle_with(..).cos() of two unit vectors: their scalar product
cos_angle_with(u, v) == scalar_product(u, v)

\* sym_vector = 2 * surface_normal_vector - point_to_source_vector, where
\* surface_normal_vector was reassigned &point_to_source_vector * teta.cos()
sym_vector(point_to_source_vector, surface_normal_vector) ==
    VectorSub(ScalarMulVector(2 * ONE,
                  ScalarMulVector(cos_angle_with(point_to_source_vector, surface_normal_vector),
                                  point_to_source_vector)),
              point_to_source_vector)

\* the else branch of reflected_ray once both vectors were normalized
reflected_from(surface_point, point_to_source, surface_normal) ==
    IF ~point_to_source.ok THEN ErrValue(point_to_source.err)
    ELSE IF ~surface_normal.ok THEN ErrValue(surface_normal.err)
    ELSE OkValue(Ray(surface_point, sym_vector(point_to_source.v, surface_normal.v)))

\* reflected_ray once the horizon test has answered
reflected_by_horizon(above, source, object, surface_point) ==
    IF above.kind = "Err" THEN above
    ELSE IF ~above.value THEN ErrValue("SourceNotVisibleFromPoint")
    ELSE reflected_from(surface_point,
                        normalize(new_from_points(surface_point, source)),
                        normalize(new_from_points(object.center, surface_point)))

\* Ray::reflected_ray(source, object, surface_point)
reflected_ray(source, object, surface_point) ==
    reflected_by_horizon(source_is_above_horizon(object, surface_point, source),
                         source, object, surface_point)

\* ------------------------------------------------------------------------
\* Color, DiffusionCoefficient, Material (optic/color.rs, optic/material.rs)
\* ------------------------------------------------------------------------

U8_MAX == 255

Color(r, g, b) == [r |-> r, g |-> g, b |-> b]

BLACK == Color(0, 0, 0)
WHITE == Color(U8_MAX, U8_MAX, U8_MAX)
RED == Color(U8_MAX, 0, 0)
GREEN == Color(0, U8_MAX, 0)
BLUE == Color(0, 0, U8_MAX)

\* an addition that wraps modulo 256
wrapping_add(a, b) == (a + b) % (U8_MAX + 1)

\* u8::saturating_add
saturating_add(a, b) == IF a + b > U8_MAX THEN U8_MAX ELSE a + b

\* impl Add for &Color
ColorAdd(a, b) ==
    Color(saturating_add(a.r, b.r), saturating_add(a.g, b.g), saturating_add(a.b, b.b))

\* the cast `(num / den) as u8` of a float, den > 0: truncated toward zero and
\* clamped to 0 ..= 255
as_u8(num, den) ==
    IF num <= 0 THEN 0
    ELSE IF num \div den > U8_MAX THEN U8_MAX ELSE num \div den

\* a float factor k = num / den
F64(num, den) == [num |-> num, den |-> den]

\* impl Mul<f64> for &Color
ColorMulF64(c, k) ==
    Color(as_u8(c.r * k.num, k.den), as_u8(c.g * k.num, k.den), as_u8(c.b * k.num, k.den))

DiffusionCoefficient(dr, dg, db) == [dr |-> dr, dg |-> dg, db |-> db]

\* Color::to_diffusion_coefficient: each channel divided by u8::MAX
to_diffusion_coefficient(c) ==
    DiffusionCoefficient(RDiv(c.r * ONE, U8_MAX), RDiv(c.g * ONE, U8_MAX),
                         RDiv(c.b * ONE, U8_MAX))

\* a product that leaves the colour as it is
DiffusionLeavesColor(d, c) == c

\* impl Mul<&Color> for &DiffusionCoefficient
DiffusionMulColor(d, c) ==
    Color(as_u8(c.r * d.dr, ONE), as_u8(c.g * d.dg, ONE), as_u8(c.b * d.db, ONE))

\* &Color * &Color, the throughput applied to a light: each channel of the
\* throughput is a fraction of u8::MAX
ColorMulColor(light, throughput) ==
    Color((light.r * throughput.r) \div U8_MAX,
          (light.g * throughput.g) \div U8_MAX,
          (light.b * throughput.b) \div U8_MAX)

\* Material { emission_color, emission_strength, diffusion_coefficients,
\* reflection_coeff }
MaterialStruct(emission_color, emission_strength, diffusion_coefficients, reflection_coeff) ==
    [emission_color |-> emission_color,
     emission_strength |-> emission_strength,
     diffusion_coefficients |-> diffusion_coefficients,
     reflection_coeff |-> reflection_coeff]

\* a material that reflects nothing
Material(emission_color, emission_strength, diffusion_coefficients) ==
    MaterialStruct(emission_color, emission_strength, diffusion_coefficients, 0)

\* (0. ..=1.).contains(&x)
in_unit_range(x) == 0 <= x /\ x <= ONE

\* a DiffusionCoefficient::new that checks the red channel only
DiffusionCoefficient_new_red_only(dr, dg, db) ==
    IF ~in_unit_range(dr)
    THEN [kind |-> "Err", err |-> "DiffusionCoefficientOOB"]
    ELSE [kind |-> "Ok", value |-> DiffusionCoefficient(dr, dg, db)]

\* DiffusionCoefficient::new(dr, dg, db)
DiffusionCoefficient_new(dr, dg, db) ==
    IF ~in_unit_range(dr) \/ ~in_unit_range(dg) \/ ~in_unit_range(db)
    THEN [kind |-> "Err", err |-> "DiffusionCoefficientOOB"]
    ELSE [kind |-> "Ok", value |-> DiffusionCoefficient(dr, dg, db)]

\* Vector::norme_vec
norme_vec(v) == norme(v.x, v.y, v.z)

\* Vector::angle_with(..).cos(): scalar_product / (norme_vec * norme_vec)
cos_of_angle_with(u, v) ==
    FDiv(scalar_product(u, v), FMul(norme_vec(u), norme_vec(v)))

\* (a test that lets a grazing source through)
is_behind_surface(normal_ray_scalar_prod) == normal_ray_scalar_prod < 0

\* normal_ray_scalar_prod <= 0.
source_not_visible(normal_ray_scalar_prod) == normal_ray_scalar_prod <= 0

\* diffused_color once vector_from_surface_to_source is known
diffused_toward(source_color, object_diffusion_coefficient, to_source, surface_normal_vector) ==
    IF source_not_visible(scalar_product(surface_normal_vector, to_source))
    THEN ErrValue("SourceNotVisibleFromPoint")
    ELSE OkValue(ColorMulF64(DiffusionMulColor(object_diffusion_coefficient, source_color),
                             F64(cos_of_angle_with(to_source, surface_normal_vector), ONE)))

\* diffused_color(source_color, object_diffusion_coefficient, source_ray,
\* surface_normal_vector); source_ray.direction is a unit vector
diffused_color(source_color, object_diffusion_coefficient, source_ray, surface_normal_vector) ==
    diffused_toward(source_color, object_diffusion_coefficient,
                    ScalarMulVector(-ONE, source_ray.direction), surface_normal_vector)

\* Color::to_diffusion_coefficient as the Result it returns
to_diffusion_coefficient_result(c) ==
    DiffusionCoefficient_new(RDiv(c.r * ONE, U8_MAX), RDiv(c.g * ONE, U8_MAX),
                             RDiv(c.b * ONE, U8_MAX))

\* Material::new(emission_color, emission_strength, diffusion_coefficients,
\* reflection_coeff)
Material_new(emission_color, emission_strength, diffusion_coefficients, reflection_coeff) ==
    IF ~in_unit_range(reflection_coeff)
    THEN [kind |-> "Err", err |-> "CoefficientOOB", value |-> reflection_coeff]
    ELSE IF ~in_unit_range(emission_strength)
    THEN [kind |-> "Err", err |-> "CoefficientOOB", value |-> emission_strength]
    ELSE [kind |-> "Ok",
          value |-> MaterialStruct(emission_color, emission_strength,
                                   diffusion_coefficients, reflection_coeff)]

Object(shape, material) == [shape |-> shape, material |-> material]

\* Material::default(): black emission of strength 0, white diffusion
default_material == Material(BLACK, 0, to_diffusion_coefficient(WHITE))

\* ------------------------------------------------------------------------
\* The seeded stream of unit-sphere points (optic/image.rs, geometry/ray.rs)
\* ------------------------------------------------------------------------

\* state of the generator after XorShiftRng::seed_from_u64(seed): the
\* generator is modelled with 8 states, visited in one cycle
seed_from_u64 == 6

\* the generator's step
rng_next(s) == (5 * s + 3) % 8

\* the points of the unit sphere the stream yields, one per generator state
UnitSphereTable ==
    << new_from_coordinates(0, 0, -ONE),
       new_from_coordinates(ONE, 0, 0),
       new_from_coordinates(0, 0, ONE),
       new_from_coordinates(-ONE, 0, 0),
       new_from_coordinates(0, ONE, 0),
       new_from_coordinates(600, 0, -800),
       new_from_coordinates(0, -ONE, 0),
       new_from_coordinates(0, 600, 800) >>

\* unit_sphere_iter.next(): the point drawn in generator state s
unit_sphere_sample(s) == UnitSphereTable[s + 1]

\* Ray { origin: *point, direction: direction.normalize()? }
ray_from(point, d) ==
    IF ~d.ok THEN [ok |-> FALSE, err |-> d.err]
    ELSE [ok |-> TRUE, ray |-> Ray(point, d.v)]

\* a bounce direction that is not normalized
unnormalized_bounce_direction(point, n, p) ==
    IF ~n.ok THEN [ok |-> FALSE, err |-> n.err]
    ELSE ray_from(point, [ok |-> TRUE, v |-> VectorAdd(n.v, p)])

\* normal.normalize()? + Vector::new_from_coordinates(x, y, z), n being the
\* normalized normal and p the point drawn
bounce_direction(point, n, p) ==
    IF ~n.ok THEN [ok |-> FALSE, err |-> n.err]
    ELSE ray_from(point, normalize(VectorAdd(n.v, p)))

\* Ray::cos_weighted_random_ray_unit_sphere(point, normal, iter), the draw
\* taken in generator state s
cos_weighted_random_ray_unit_sphere(point, normal, s) ==
    bounce_direction(point, normalize(normal), unit_sphere_sample(s))

\* unit_sphere_iter.next() on an iterator that holds the draws of `stream`
\* and then yields nothing
iter_next(stream) ==
    IF stream = << >> THEN [some |-> FALSE, rest |-> stream]
    ELSE [some |-> TRUE, arr |-> Head(stream), rest |-> Tail(stream)]

\* Ray::cos_weighted_random_ray_unit_sphere given what next() returned
cos_weighted_of_draw(point, normal, draw) ==
    IF ~draw.some THEN ErrValue("IteratorDepleted")
    ELSE IF bounce_direction(point, normalize(normal), draw.arr).ok
    THEN OkValue(bounce_direction(point, normalize(normal), draw.arr).ray)
    ELSE ErrValue(bounce_direction(point, normalize(normal), draw.arr).err)

\* (a test that flips no direction)
points_inward_never(normal, direction) == FALSE

\* normal.scalar_product(&direction) < 0.
points_inward(normal, direction) == scalar_product(normal, direction) < 0

\* Ray::uniform_weighted_random_ray given what next() returned
uniform_weighted_of_draw(point, normal, draw) ==
    IF ~draw.some THEN ErrValue("IteratorDepleted")
    ELSE IF points_inward(normal, draw.arr)
    THEN OkValue(Ray(point, ScalarMulVector(-ONE, draw.arr)))
    ELSE OkValue(Ray(point, draw.arr))

\* ------------------------------------------------------------------------
\* Grid (optic/image.rs)
\* ------------------------------------------------------------------------

\* the raster is GRID_WIDTH x GRID_HEIGHT (1920 x 1080 in the source)
GRID_WIDTH == 2
GRID_HEIGHT == 2

\* 1e-2
PIXEL_SIZE == 10

EYE_POINT == Point(0, 0, -10 * ONE)
GRID_CENTER_POINT == Point(0, 0, 0)

GRID_CENTER_WIDTH_INDEX == GRID_WIDTH \div 2
GRID_CENTER_HEIGHT_INDEX == GRID_HEIGHT \div 2

get_background_color == Color(0, 0, 0)

\* Grid::pixel_point_selection: the centre of the pixel, for every sample
pixel_point_selection(pixel_width_index, pixel_height_index) ==
    Point(FMul(ONE \div 2 + pixel_width_index * ONE - GRID_CENTER_WIDTH_INDEX * ONE,
               PIXEL_SIZE) + GRID_CENTER_POINT.x,
          FMul(ONE \div 2 + pixel_height_index * ONE - GRID_CENTER_HEIGHT_INDEX * ONE,
               PIXEL_SIZE) + GRID_CENTER_POINT.y,
          0)

\* Grid::ray_eye_pixel_point: the vector from the eye to the pixel's point
ray_eye_pixel_point(pixel_width_index, pixel_height_index) ==
    new_from_points(EYE_POINT, pixel_point_selection(pixel_width_index, pixel_height_index))

\* `let ray_has_hit = false;`: bound once, never assigned again
ray_has_hit == FALSE

\* ray_light after a search that found nothing
miss_light(ray_light) ==
    IF ray_has_hit THEN ray_light ELSE get_background_color

\* a loop that runs one iteration more
loop_continues_once_more(bounce, number_of_bounces) == bounce <= number_of_bounces + 1

\* for _ in 0..=number_of_bounces: an iteration follows `bounce` iterations
loop_continues(bounce, number_of_bounces) == bounce <= number_of_bounces

\* an iteration that updates the colour first and scales the emission by it
after_bounce_attenuated(s, found, material, bounced, new_ray_color) ==
    [ray |-> bounced.ray,
     ray_color |-> new_ray_color,
     ray_light |-> ColorAdd(s.ray_light,
                       ColorMulColor(ColorMulF64(material.emission_color,
                                                 F64(material.emission_strength, ONE)),
                                     new_ray_color)),
     last_hit_sphere |-> [some |-> TRUE, id |-> found.object],
     rng |-> rng_next(s.rng),
     bounce |-> s.bounce + 1,
     path |-> Append(s.path, found.object),
     status |-> IF new_ray_color = BLACK THEN "break" ELSE "loop"]

\* the iteration from `let light_emitted_by_hit_object` on; bounced is
\* the ray cos_weighted_random_ray_unit_sphere returned
after_bounce(s, found, material, bounced, new_ray_color) ==
    [ray |-> bounced.ray,
     ray_color |-> new_ray_color,
     ray_light |-> ColorAdd(s.ray_light,
                       ColorMulColor(ColorMulF64(material.emission_color,
                                                 F64(material.emission_strength, ONE)),
                                     s.ray_color)),
     last_hit_sphere |-> [some |-> TRUE, id |-> found.object],
     rng |-> rng_next(s.rng),
     bounce |-> s.bounce + 1,
     path |-> Append(s.path, found.object),
     status |-> IF new_ray_color = BLACK THEN "break" ELSE "loop"]

\* an after_hit that adds the emission of the object to the throughput
after_hit_glowing(s, found, material, bounced) ==
    IF ~bounced.ok
    THEN [s EXCEPT !.last_hit_sphere = [some |-> TRUE, id |-> found.object],
                   !.rng = rng_next(@), !.status = "Err"]
    ELSE after_bounce(s, found, material, bounced,
                      ColorAdd(DiffusionMulColor(material.diffusion_coefficients,
                                                 s.ray_color),
                               material.emission_color))

\* the iteration after a hit: last_hit_sphere is set, then the next ray is
\* drawn (an error in it returns from the function), then light and colour
after_hit(s, found, material, bounced) ==
    IF ~bounced.ok
    THEN [s EXCEPT !.last_hit_sphere = [some |-> TRUE, id |-> found.object],
                   !.rng = rng_next(@), !.status = "Err"]
    ELSE after_bounce(s, found, material, bounced,
                      DiffusionMulColor(material.diffusion_coefficients, s.ray_color))

\* the iteration after the search; found is what first_point_hit_by_ray
\* returned
after_search(s, objects, found) ==
    IF found.kind = "Panic" THEN [s EXCEPT !.status = "Panic"]
    ELSE IF found.kind = "Err" THEN [s EXCEPT !.status = "Err"]
    ELSE IF found.kind = "None"
    THEN [s EXCEPT !.ray_light = miss_light(@), !.bounce = @ + 1, !.status = "break"]
    ELSE after_hit(s, found, objects[found.object].material,
                   cos_weighted_random_ray_unit_sphere(
                       found.point_hit, found.normal, s.rng))

\* a search that excludes nothing, whatever was hit before
ignored_by_nothing(s, objects) == NoneObject

\* the object the search ignores
ignored_by(s, objects) ==
    IF s.last_hit_sphere.some THEN SomeObject(objects[s.last_hit_sphere.id])
    ELSE NoneObject

\* one iteration of the bounce loop on the locals s of the sample; status is
\* "loop" (the body ran to its end), "break", "Err" or "Panic"
bounce_iteration(s, objects) ==
    after_search(s, objects,
                 first_point_hit_by_ray(s.ray, objects, ignored_by(s, objects)))

\* the locals of a sample before its first iteration
sample_locals(pixel_width_index, pixel_height_index, rng_state) ==
    [ray |-> Ray(EYE_POINT, ray_eye_pixel_point(pixel_width_index, pixel_height_index)),
     ray_color |-> WHITE,
     ray_light |-> BLACK,
     last_hit_sphere |-> [some |-> FALSE, id |-> 0],
     rng |-> rng_state,
     bounce |-> 0,
     path |-> << >>,
     status |-> "loop"]

\* total_ray_light * (1 / number_of_points_per_pixel)
mean_color(total_ray_light, number_of_points_per_pixel) ==
    ColorMulF64(total_ray_light, F64(1, number_of_points_per_pixel))

RECURSIVE bounce_loop(_, _, _)
\* the bounce loop run to its end from the locals s: the locals it leaves
bounce_loop(s, objects, number_of_bounces) ==
    IF s.status = "loop" /\ loop_continues(s.bounce, number_of_bounces)
    THEN bounce_loop(bounce_iteration(s, objects), objects, number_of_bounces)
    ELSE s

RECURSIVE sample_loop(_, _, _, _, _, _, _, _)
\* `for vector in vector_eye_pixel` from the sample of index done on, t being
\* the locals the bounce loop of that sample leaves: what trace_pixel_color
\* returns and the stream as it leaves it
sample_loop(objects, number_of_points_per_pixel, number_of_bounces, pixel_width_index, pixel_height_index, done, total_ray_light, t) ==
    IF t.status \in {"Err", "Panic"} THEN [kind |-> t.status, rng |-> t.rng]
    ELSE IF done + 1 = number_of_points_per_pixel
    THEN [kind |-> "Ok",
          color |-> mean_color(ColorAdd(total_ray_light, t.ray_light),
                               number_of_points_per_pixel),
          rng |-> t.rng]
    ELSE sample_loop(objects, number_of_points_per_pixel, number_of_bounces,
                     pixel_width_index, pixel_height_index, done + 1,
                     ColorAdd(total_ray_light, t.ray_light),
                     bounce_loop(sample_locals(pixel_width_index, pixel_height_index, t.rng),
                                 objects, number_of_bounces))

\* Grid::trace_pixel_color as a function of its arguments and of the stream
\* handed to it
pixel_traced(objects, number_of_points_per_pixel, number_of_bounces, pixel_width_index, pixel_height_index, rng_state) ==
    sample_loop(objects, number_of_points_per_pixel, number_of_bounces,
                pixel_width_index, pixel_height_index, 0, BLACK,
                bounce_loop(sample_locals(pixel_width_index, pixel_height_index, rng_state),
                            objects, number_of_bounces))

\* ------------------------------------------------------------------------
\* State
\* ------------------------------------------------------------------------

VARIABLES
    \* a call of Ray::intersect or Ray::first_point_hit_by_ray on its own
    q_op,        \* "idle", "intersect" or "first_point_hit_by_ray"
    q_ray,       \* self
    q_objects,   \* objects (for intersect: the one object)
    q_ignore,    \* ignore_object
    q_result,    \* what the call returned
    q_args,      \* the arguments of a call of a colour or material function
    \* the arguments of Grid::make_image
    objects,
    number_of_points_per_pixel,
    number_of_bounces,
    \* the calls of make_image, each on a Grid of its own
    run,         \* number of calls started
    pc,          \* where the running call stands; "idle" between calls
    outcome,     \* outcome[r]: "none", "running", "Ok", "Err" or "Panic"
    colors,      \* colors[r][row][column]: the raster of the r-th Grid
    rng,         \* unit_disc_iter: the generator state of the stream
    pixel_height_index,
    pixel_width_index,
    \* locals of Grid::trace_pixel_color
    entry_rng,        \* the stream as it was when the pixel's tracing began
    total_ray_light,
    sample,           \* samples of the pixel already summed
    sample_lights,    \* the ray_light of each of them
    ray,
    ray_color,
    ray_light,
    last_hit_sphere,
    bounce,           \* iterations of the bounce loop run for this sample
    path,             \* the objects hit by this sample, in order
    pixel_color       \* the value trace_pixel_color returned

qvars == <<q_op, q_ray, q_objects, q_ignore, q_result, q_args>>

args == <<objects, number_of_points_per_pixel, number_of_bounces>>

pixel_vars == <<pixel_height_index, pixel_width_index>>

sample_vars == <<ray, ray_color, ray_light, last_hit_sphere, bounce, path>>

vars == <<q_op, q_ray, q_objects, q_ignore, q_result, q_args,
          objects, number_of_points_per_pixel, number_of_bounces,
          run, pc, outcome, colors, rng, pixel_height_index, pixel_width_index,
          entry_rng, total_ray_light, sample, sample_lights,
          ray, ray_color, ray_light, last_hit_sphere, bounce, path, pixel_color>>

rvars == <<objects, number_of_points_per_pixel, number_of_bounces,
           run, pc, outcome, colors, rng, pixel_height_index, pixel_width_index,
           entry_rng, total_ray_light, sample, sample_lights,
           ray, ray_color, ray_light, last_hit_sphere, bounce, path, pixel_color>>

\* ------------------------------------------------------------------------
\* Scenes
\* ------------------------------------------------------------------------

\* most samples per pixel, largest bounce budget, most calls of make_image
MaxSamples == 2
MaxBounces == 2
MaxRuns == 2

SupportSphere == Sphere(Point(0, 0, 6 * ONE), 4 * ONE)
LightSphere == Sphere(Point(6 * ONE, 0, -4 * ONE), 3 * ONE)
BackSphere == Sphere(Point(0, 0, -16 * ONE), 3 * ONE)

\* a white light of strength 1 that diffuses nothing
LightMaterial == Material(WHITE, ONE, to_diffusion_coefficient(BLACK))

\* the scene of test_trace_pixel_color: a red diffuse sphere and a light
SceneTest ==
    << Object(SupportSphere, Material(BLACK, 0, to_diffusion_coefficient(RED))),
       Object(LightSphere, LightMaterial) >>

\* a sphere that both emits and diffuses, a white diffuse sphere and a light
SceneGlow ==
    << Object(SupportSphere,
              Material(Color(200, 100, 50), ONE,
                       DiffusionCoefficient(ONE \div 2, ONE \div 2, ONE \div 2))),
       Object(BackSphere, default_material),
       Object(LightSphere, LightMaterial) >>

\* a light in front of the eye
SceneLamp == << Object(SupportSphere, LightMaterial) >>

\* two objects of equal shape, the later one emitting
SceneTwins ==
    << Object(SupportSphere, Material(BLACK, 0, to_diffusion_coefficient(GREEN))),
       Object(SupportSphere, Material(BLUE, ONE \div 2, to_diffusion_coefficient(WHITE))),
       Object(BackSphere, Material(Color(100, 100, 100), ONE, to_diffusion_coefficient(WHITE))) >>

SceneEmpty == << >>

\* a light of radius 0 that lies on the eye ray of the pixel of column 1
\* and row 0, where the normal at the hit point has no direction, and that
\* the eye ray of the first pixel touches beside its centre
SceneDot == << Object(Sphere(Point(6, -6, -4 * ONE), 0), LightMaterial) >>

\* the scene of test_trace_pixel_color with a red coefficient of 0.5
SceneHalfRed ==
    << Object(SupportSphere, Material(BLACK, 0, DiffusionCoefficient(ONE \div 2, 0, 0))),
       Object(LightSphere, LightMaterial) >>

Scenes ==
    { SceneTest, SceneGlow, SceneLamp, SceneTwins, SceneEmpty, SceneDot, SceneHalfRed }

\* ------------------------------------------------------------------------
\* Grid::make_image and Grid::trace_pixel_color
\* ------------------------------------------------------------------------

Rows == 0..(GRID_HEIGHT - 1)
Columns == 0..(GRID_WIDTH - 1)

\* impl Default for Grid: every cell black
default_colors == [row \in Rows |-> [column \in Columns |-> BLACK]]

\* the state before any call, for the arguments given
RInitWith(objs, npp, nb) ==
    /\ objects = objs
    /\ number_of_points_per_pixel = npp
    /\ number_of_bounces = nb
    /\ run = 0
    /\ pc = "idle"
    /\ outcome = [r \in 1..MaxRuns |-> "none"]
    /\ colors = [r \in 1..MaxRuns |-> default_colors]
    /\ rng = seed_from_u64
    /\ pixel_height_index = 0
    /\ pixel_width_index = 0
    /\ entry_rng = seed_from_u64
    /\ total_ray_light = BLACK
    /\ sample = 0
    /\ sample_lights = << >>
    /\ ray = Ray(EYE_POINT, ray_eye_pixel_point(0, 0))
    /\ ray_color = WHITE
    /\ ray_light = BLACK
    /\ last_hit_sphere = [some |-> FALSE, id |-> 0]
    /\ bounce = 0
    /\ path = << >>
    /\ pixel_color = BLACK

RInit ==
    \E objs \in Scenes, npp \in 1..MaxSamples, nb \in 0..MaxBounces :
        RInitWith(objs, npp, nb)

\* a make_image that goes on with the stream the call before it left
make_image_on_used_stream ==
    /\ pc = "idle"
    /\ run < MaxRuns
    /\ run' = run + 1
    /\ outcome' = [outcome EXCEPT ![run + 1] = "running"]
    /\ pixel_height_index' = 0
    /\ pixel_width_index' = 0
    /\ pc' = "pixel"
    /\ UNCHANGED <<qvars, args, colors, rng, entry_rng, total_ray_light, sample,
                   sample_lights, sample_vars, pixel_color>>

\* grid.make_image(number_of_points_per_pixel, number_of_bounces, objects) on
\* a new Grid: the stream is created from the seed
make_image ==
    /\ pc = "idle"
    /\ run < MaxRuns
    /\ run' = run + 1
    /\ outcome' = [outcome EXCEPT ![run + 1] = "running"]
    /\ rng' = seed_from_u64
    /\ pixel_height_index' = 0
    /\ pixel_width_index' = 0
    /\ pc' = "pixel"
    /\ UNCHANGED <<qvars, args, colors, entry_rng, total_ray_light, sample,
                   sample_lights, sample_vars, pixel_color>>

\* a trace_pixel_color that keeps the total of the pixel before
trace_pixel_color_keeping_total ==
    /\ pc = "pixel"
    /\ entry_rng' = rng
    /\ sample' = 0
    /\ sample_lights' = << >>
    /\ pc' = "sample"
    /\ UNCHANGED <<qvars, args, run, outcome, colors, rng, pixel_vars,
                   total_ray_light, sample_vars, pixel_color>>

\* Grid::trace_pixel_color is entered for the pixel
trace_pixel_color ==
    /\ pc = "pixel"
    /\ entry_rng' = rng
    /\ total_ray_light' = BLACK
    /\ sample' = 0
    /\ sample_lights' = << >>
    /\ pc' = "sample"
    /\ UNCHANGED <<qvars, args, run, outcome, colors, rng, pixel_vars,
                   sample_vars, pixel_color>>

\* the locals of the sample take the values of s
set_locals(s) ==
    /\ ray' = s.ray
    /\ ray_color' = s.ray_color
    /\ ray_light' = s.ray_light
    /\ last_hit_sphere' = s.last_hit_sphere
    /\ bounce' = s.bounce
    /\ path' = s.path

\* the body of `for vector in vector_eye_pixel` up to the bounce loop
start_sample ==
    /\ pc = "sample"
    /\ set_locals(sample_locals(pixel_width_index, pixel_height_index, rng))
    /\ pc' = "bounce"
    /\ UNCHANGED <<qvars, args, run, outcome, colors, rng, pixel_vars, entry_rng,
                   total_ray_light, sample, sample_lights, pixel_color>>

\* the locals of the sample under way
current_locals ==
    [ray |-> ray, ray_color |-> ray_color, ray_light |-> ray_light,
     last_hit_sphere |-> last_hit_sphere, rng |-> rng, bounce |-> bounce,
     path |-> path, status |-> "loop"]

\* a call that goes on with the light of the sample after an error
after_iteration_going_on(s) ==
    /\ set_locals(s)
    /\ rng' = s.rng
    /\ pc' = IF s.status \in {"Err", "Panic", "break"} THEN "sum"
             ELSE IF loop_continues(s.bounce, number_of_bounces) THEN "bounce"
             ELSE "sum"
    /\ outcome' = IF s.status \in {"Err", "Panic"}
                  THEN [outcome EXCEPT ![run] = s.status]
                  ELSE outcome

\* where the call stands after an iteration that left the locals s
after_iteration(s) ==
    /\ set_locals(s)
    /\ rng' = s.rng
    /\ pc' = IF s.status \in {"Err", "Panic"} THEN "idle"
             ELSE IF s.status = "break" THEN "sum"
             ELSE IF loop_continues(s.bounce, number_of_bounces) THEN "bounce"
             ELSE "sum"
    /\ outcome' = IF s.status \in {"Err", "Panic"}
                  THEN [outcome EXCEPT ![run] = s.status]
                  ELSE outcome

\* one iteration of `for _ in 0..=number_of_bounces`; an error or a panic
\* ends the call of make_image
bounce_step ==
    /\ pc = "bounce"
    /\ after_iteration(bounce_iteration(current_locals, objects))
    /\ UNCHANGED <<qvars, args, run, colors, pixel_vars, entry_rng,
                   total_ray_light, sample, sample_lights, pixel_color>>

\* total_ray_light = &total_ray_light + &ray_light, then the next sample
sum_sample ==
    /\ pc = "sum"
    /\ total_ray_light' = ColorAdd(total_ray_light, ray_light)
    /\ sample_lights' = Append(sample_lights, ray_light)
    /\ sample' = sample + 1
    /\ pc' = IF sample + 1 < number_of_points_per_pixel THEN "sample" ELSE "finish"
    /\ UNCHANGED <<qvars, args, run, outcome, colors, rng, pixel_vars, entry_rng,
                   sample_vars, pixel_color>>

\* trace_pixel_color returns total_ray_light * (1 / number_of_points_per_pixel)
finish_pixel ==
    /\ pc = "finish"
    /\ pixel_color' = mean_color(total_ray_light, number_of_points_per_pixel)
    /\ pc' = "write"
    /\ UNCHANGED <<qvars, args, run, outcome, colors, rng, pixel_vars, entry_rng,
                   total_ray_light, sample, sample_lights, sample_vars>>

\* a write_pixel that walks the raster column by column
write_pixel_column_major ==
    /\ pc = "write"
    /\ colors' = [colors EXCEPT ![run][pixel_height_index][pixel_width_index] = pixel_color]
    /\ IF pixel_height_index + 1 < GRID_HEIGHT
       THEN /\ pixel_height_index' = pixel_height_index + 1
            /\ pixel_width_index' = pixel_width_index
            /\ pc' = "pixel"
            /\ outcome' = outcome
       ELSE IF pixel_width_index + 1 < GRID_WIDTH
       THEN /\ pixel_height_index' = 0
            /\ pixel_width_index' = pixel_width_index + 1
            /\ pc' = "pixel"
            /\ outcome' = outcome
       ELSE /\ pixel_width_index' = pixel_width_index
            /\ pixel_height_index' = pixel_height_index
            /\ pc' = "idle"
            /\ outcome' = [outcome EXCEPT ![run] = "Ok"]
    /\ UNCHANGED <<qvars, args, run, rng, entry_rng, total_ray_light, sample,
                   sample_lights, sample_vars, pixel_color>>

\* self.colors[pixel_height_index][pixel_width_index] = pixel_color, then the
\* next pixel in the row, the next row, or Ok(())
write_pixel ==
    /\ pc = "write"
    /\ colors' = [colors EXCEPT ![run][pixel_height_index][pixel_width_index] = pixel_color]
    /\ IF pixel_width_index + 1 < GRID_WIDTH
       THEN /\ pixel_width_index' = pixel_width_index + 1
            /\ pixel_height_index' = pixel_height_index
            /\ pc' = "pixel"
            /\ outcome' = outcome
       ELSE IF pixel_height_index + 1 < GRID_HEIGHT
       THEN /\ pixel_width_index' = 0
            /\ pixel_height_index' = pixel_height_index + 1
            /\ pc' = "pixel"
            /\ outcome' = outcome
       ELSE /\ pixel_width_index' = pixel_width_index
            /\ pixel_height_index' = pixel_height_index
            /\ pc' = "idle"
            /\ outcome' = [outcome EXCEPT ![run] = "Ok"]
    /\ UNCHANGED <<qvars, args, run, rng, entry_rng, total_ray_light, sample,
                   sample_lights, sample_vars, pixel_color>>

\* ------------------------------------------------------------------------
\* Calls of Ray::intersect and Ray::first_point_hit_by_ray on bounded inputs
\* ------------------------------------------------------------------------

\* longest object list handed to first_point_hit_by_ray
MaxObjects == 2

\* ray origins, on the integer lattice
QueryOrigins ==
    { Point(0, 0, 0), Point(0, 0, -10 * ONE), Point(-8 * ONE, 0, 0),
      Point(5 * ONE, 0, 0), Point(3 * ONE, 0, 0) }

\* ray directions: not all of unit length, one of them the zero vector
QueryDirections ==
    { new_from_coordinates(ONE, 0, 0), new_from_coordinates(-ONE, 0, 0),
      new_from_coordinates(0, 0, 2 * ONE), new_from_coordinates(0, ONE, 0),
      new_from_coordinates(3 * ONE, 4 * ONE, 0), new_from_coordinates(0, 0, 0) }

QueryRays == { Ray(o, d) : o \in QueryOrigins, d \in QueryDirections }

QuerySpheres ==
    { Sphere(Point(0, 0, 0), 5 * ONE),
      Sphere(Point(-3 * ONE, 5 * ONE, 0), 5 * ONE),
      Sphere(Point(8 * ONE, 0, 0), 2 * ONE),
      Sphere(Point(11 * ONE, 0, 0), 5 * ONE),
      Sphere(Point(-8 * ONE, 0, 0), 2 * ONE),
      Sphere(Point(0, 0, 10 * ONE), 4 * ONE) }

QueryObjects == { Object(s, default_material) : s \in QuerySpheres }

QueryLists ==
    UNION { [1..n -> QueryObjects] : n \in 0..MaxObjects }

QueryIgnores == { NoneObject } \cup { SomeObject(o) : o \in QueryObjects }

QInit ==
    /\ q_op = "idle"
    /\ q_ray = Ray(Point(0, 0, 0), new_from_coordinates(ONE, 0, 0))
    /\ q_objects = << >>
    /\ q_ignore = NoneObject
    /\ q_result = NoHit
    /\ q_args = << >>

\* ray.intersect(object)
CallIntersect ==
    /\ q_op = "idle"
    /\ \E qr \in QueryRays, qo \in QueryObjects :
        /\ q_op' = "intersect"
        /\ q_ray' = qr
        /\ q_objects' = <<qo>>
        /\ q_ignore' = NoneObject
        /\ q_result' = intersect(qr, qo.shape, 1)
    /\ UNCHANGED <<q_args, rvars>>

\* ray.first_point_hit_by_ray(objects, ignore_object)
CallFirstPointHitByRay ==
    /\ q_op = "idle"
    /\ \E qr \in QueryRays, qo \in QueryLists, qi \in QueryIgnores :
        /\ q_op' = "first_point_hit_by_ray"
        /\ q_ray' = qr
        /\ q_objects' = qo
        /\ q_ignore' = qi
        /\ q_result' = first_point_hit_by_ray(qr, qo, qi)
    /\ UNCHANGED <<q_args, rvars>>

\* radii handed to the constructors of Sphere
QueryRadii == { -ONE, 0, 2 * ONE, 5 * ONE }

\* what a call of a Sphere function leaves alone
svars == <<q_ray, q_objects, q_ignore, rvars>>

\* Sphere::new_from_radius(&center, radius)
CallSphereNewFromRadius ==
    /\ q_op = "idle"
    /\ \E qc \in QueryOrigins, qr \in QueryRadii :
        /\ q_op' = "Sphere::new_from_radius"
        /\ q_args' = [center |-> qc, radius |-> qr]
        /\ q_result' = [kind |-> "Ok", value |-> Sphere_new_from_radius(qc, qr)]
    /\ UNCHANGED svars

\* Sphere::new_from_points(&center, &outer)
CallSphereNewFromPoints ==
    /\ q_op = "idle"
    /\ \E qc, qo \in QueryOrigins :
        /\ q_op' = "Sphere::new_from_points"
        /\ q_args' = [center |-> qc, outer |-> qo]
        /\ q_result' = [kind |-> "Ok", value |-> Sphere_new_from_points(qc, qo)]
    /\ UNCHANGED svars

\* sphere.radius = radius, on a sphere a constructor returned
CallSetRadius ==
    /\ q_op = "idle"
    /\ \E qs \in QuerySpheres, qr \in QueryRadii :
        /\ q_op' = "sphere.radius ="
        /\ q_args' = [sphere |-> qs, radius |-> qr]
        /\ q_result' = [kind |-> "Ok", value |-> [qs EXCEPT !.radius = qr]]
    /\ UNCHANGED svars

\* points handed to the Sphere queries, as surface point and as source
QueryPoints ==
    { Point(0, 0, 0), Point(5 * ONE, 0, 0), Point(-5 * ONE, 0, 0),
      Point(3 * ONE, 4 * ONE, 0), Point(-1 * ONE, 7 * ONE, 0),
      Point(-1 * ONE, 7 * ONE, 5 * ONE), Point(10 * ONE, 0, 0),
      Point(6 * ONE, 0, 0), Point(12 * ONE, 0, 0), Point(0, 0, 6 * ONE) }

\* the spheres of the queries and one of radius 0
QueryShapes == QuerySpheres \cup { Sphere(Point(0, 0, 0), 0) }

\* sphere.source_is_above_horizon(&sphere_point, &source)
CallSourceIsAboveHorizon ==
    /\ q_op = "idle"
    /\ \E qs \in QueryShapes, qp \in QueryPoints, qsrc \in QueryPoints :
        /\ q_op' = "source_is_above_horizon"
        /\ q_args' = [sphere |-> qs, sphere_point |-> qp, source |-> qsrc]
        /\ q_result' = source_is_above_horizon(qs, qp, qsrc)
    /\ UNCHANGED svars

\* sphere_index arguments: the places of the list and one past its end
QueryIndexes == 0..MaxObjects

\* Sphere::source_is_visible_from_sphere_point(&objects, sphere_index,
\* &sphere_point, &source); q_ray keeps the ray the call cast, if any
CallSourceIsVisibleFromSpherePoint ==
    /\ q_op = "idle"
    /\ \E qo \in QueryLists, qi \in QueryIndexes, qp \in QueryPoints, qsrc \in QueryPoints :
        /\ q_op' = "source_is_visible_from_sphere_point"
        /\ q_objects' = qo
        /\ q_args' = [sphere_index |-> qi, sphere_point |-> qp, source |-> qsrc,
                      cast |-> rays_cast_for_visibility(qo, qi, qp, qsrc)]
        /\ q_result' = source_is_visible_from_sphere_point(qo, qi, qp, qsrc)
    /\ UNCHANGED <<q_ray, q_ignore, rvars>>

\* the points and the sphere of test_reflected_ray: 3 sqrt(2) / 2 = 2.121
ReflectedTestPoint == Point(0, 2121, 2121)
ReflectedTestSource == Point(3 * ONE, 3 * ONE, 3 * ONE)
ReflectedTestSphere == Sphere_new_from_points(Point(0, 0, 0), ReflectedTestPoint)

ReflectedPoints ==
    QueryPoints \cup { ReflectedTestPoint, ReflectedTestSource, Point(9 * ONE, 3 * ONE, 0) }
ReflectedShapes == QueryShapes \cup { ReflectedTestSphere }

\* Ray::reflected_ray(&source, &object, &surface_point)
CallReflectedRay ==
    /\ q_op = "idle"
    /\ \E qsrc \in ReflectedPoints, qs \in ReflectedShapes, qp \in ReflectedPoints :
        /\ q_op' = "reflected_ray"
        /\ q_args' = [source |-> qsrc, object |-> qs, surface_point |-> qp]
        /\ q_result' = reflected_ray(qsrc, qs, qp)
    /\ UNCHANGED svars

\* iterators of the sampling calls: up to two draws left, or none
QueryStreams ==
    { << >> } \cup { << UnitSphereTable[i] >> : i \in 1..8 }
    \cup { << UnitSphereTable[i], UnitSphereTable[1] >> : i \in 1..8 }

\* Ray::uniform_weighted_random_ray(&point, &normal, &mut unit_sphere_iter);
\* q_args.rest is the iterator as the call leaves it
CallUniformWeightedRandomRay ==
    /\ q_op = "idle"
    /\ \E qp \in QueryOrigins, qn \in QueryDirections, qs \in QueryStreams :
        /\ q_op' = "uniform_weighted_random_ray"
        /\ q_args' = [point |-> qp, normal |-> qn, stream |-> qs, rest |-> iter_next(qs).rest]
        /\ q_result' = uniform_weighted_of_draw(qp, qn, iter_next(qs))
    /\ UNCHANGED svars

\* Ray::cos_weighted_random_ray_unit_sphere(&point, &normal, &mut iter)
CallCosWeightedRandomRay ==
    /\ q_op = "idle"
    /\ \E qp \in QueryOrigins, qn \in QueryDirections, qs \in QueryStreams :
        /\ q_op' = "cos_weighted_random_ray_unit_sphere"
        /\ q_args' = [point |-> qp, normal |-> qn, stream |-> qs, rest |-> iter_next(qs).rest]
        /\ q_result' = cos_weighted_of_draw(qp, qn, iter_next(qs))
    /\ UNCHANGED svars

\* Vector::new_from_points(&origin, &destination)
CallVectorNewFromPoints ==
    /\ q_op = "idle"
    /\ \E qa, qb \in QueryOrigins :
        /\ q_op' = "Vector::new_from_points"
        /\ q_args' = [origin |-> qa, destination |-> qb]
        /\ q_result' = IF Vector_new_from_points(qa, qb).ok
                       THEN OkValue(Vector_new_from_points(qa, qb).v)
                       ELSE ErrValue(Vector_new_from_points(qa, qb).err)
    /\ UNCHANGED svars

\* ray.intersect(object) on a sphere Sphere::new_from_radius returned
CallIntersectConstructed ==
    /\ q_op = "idle"
    /\ \E qr \in QueryRays, qc \in QueryOrigins, qrad \in QueryRadii :
        /\ q_op' = "intersect"
        /\ q_ray' = qr
        /\ q_objects' = <<Object(Sphere_new_from_radius(qc, qrad), default_material)>>
        /\ q_ignore' = NoneObject
        /\ q_result' = intersect(qr, Sphere_new_from_radius(qc, qrad), 1)
    /\ UNCHANGED <<q_args, rvars>>

QNext ==
    \/ CallIntersectConstructed
    \/ CallVectorNewFromPoints
    \/ CallUniformWeightedRandomRay
    \/ CallCosWeightedRandomRay
    \/ CallReflectedRay
    \/ CallSourceIsVisibleFromSpherePoint
    \/ CallSourceIsAboveHorizon
    \/ CallIntersect
    \/ CallFirstPointHitByRay
    \/ CallSphereNewFromRadius
    \/ CallSphereNewFromPoints
    \/ CallSetRadius

\* the calls of intersect and first_point_hit_by_ray, no image being made
QueryInit == QInit /\ RInitWith(SceneTest, 1, 0)

SpecGeometry == QueryInit /\ [][QNext]_vars

\* ------------------------------------------------------------------------
\* Calls of the colour and material functions on bounded inputs
\* ------------------------------------------------------------------------

QueryChannels == { 0, 10, 250 }

QueryColors ==
    { Color(r, g, b) : r, g, b \in QueryChannels } \cup { WHITE, Color(127, 127, 127) }

\* float factors: negative, zero, fractions and factors above 1
QueryFactors ==
    { F64(-1, 1), F64(-1, 2), F64(0, 1), F64(1, 3), F64(1, 2), F64(1, 1),
      F64(3, 2), F64(2, 1), F64(300, 1) }

\* coefficients: below 0, the ends of [0, 1], inside it and above 1
QueryCoefficients == { -1, 0, ONE \div 2, ONE, ONE + 1, 2 * ONE }

\* the diffusion coefficients that exist: the ones a constructor returned
QueryDiffusions ==
    { DiffusionCoefficient_new(dr, dg, db).value :
        dr, dg, db \in { c \in QueryCoefficients : in_unit_range(c) } }
    \cup { to_diffusion_coefficient_result(c).value : c \in QueryColors }

\* source rays of diffused_color: unit directions, from one origin
DiffusedRays ==
    { Ray(Point(10 * ONE, 0, 0), d) :
        d \in { Point(-ONE, 0, 0), Point(ONE, 0, 0), Point(0, ONE, 0), Point(0, 0, -ONE),
                Point(-600, -800, 0), Point(-800, 600, 0), Point(-800, -600, 0) } }

\* surface normals of diffused_color: not of unit length, never zero
DiffusedNormals ==
    { Point(5 * ONE, 0, 0), Point(3 * ONE, 4 * ONE, 0), Point(0, 0, 4 * ONE),
      Point(-5 * ONE, 0, 0), Point(ONE, 0, 0) }

DiffusedColors ==
    { BLACK, WHITE, Color(100, 240, U8_MAX), Color(10, 0, 250), Color(127, 127, 127) }

DiffusedCoefficients ==
    { DiffusionCoefficient_new(dr, dg, db).value : dr, dg, db \in { 0, ONE \div 2, ONE } }
    \cup { to_diffusion_coefficient_result(BLACK).value }

\* what a call of a colour or material function leaves alone
ovars == <<q_ray, q_objects, q_ignore, rvars>>

\* &a + &b
CallColorAdd ==
    /\ q_op = "idle"
    /\ \E qa, qb \in QueryColors :
        /\ q_op' = "Color + Color"
        /\ q_args' = [a |-> qa, b |-> qb]
        /\ q_result' = [kind |-> "Ok", value |-> ColorAdd(qa, qb)]
    /\ UNCHANGED ovars

\* &c * k
CallColorMulF64 ==
    /\ q_op = "idle"
    /\ \E qc \in QueryColors, qk \in QueryFactors :
        /\ q_op' = "Color * f64"
        /\ q_args' = [c |-> qc, k |-> qk]
        /\ q_result' = [kind |-> "Ok", value |-> ColorMulF64(qc, qk)]
    /\ UNCHANGED ovars

\* DiffusionCoefficient::new(dr, dg, db)
CallDiffusionCoefficientNew ==
    /\ q_op = "idle"
    /\ \E qdr, qdg, qdb \in QueryCoefficients :
        /\ q_op' = "DiffusionCoefficient::new"
        /\ q_args' = [dr |-> qdr, dg |-> qdg, db |-> qdb]
        /\ q_result' = DiffusionCoefficient_new(qdr, qdg, qdb)
    /\ UNCHANGED ovars

\* color.to_diffusion_coefficient()
CallToDiffusionCoefficient ==
    /\ q_op = "idle"
    /\ \E qc \in QueryColors :
        /\ q_op' = "Color::to_diffusion_coefficient"
        /\ q_args' = [c |-> qc]
        /\ q_result' = to_diffusion_coefficient_result(qc)
    /\ UNCHANGED ovars

\* Material::new(emission_color, emission_strength, diffusion_coefficients,
\* reflection_coeff)
CallMaterialNew ==
    /\ q_op = "idle"
    /\ \E qc \in { BLACK, WHITE }, qs, qf \in QueryCoefficients, qd \in QueryDiffusions :
        /\ q_op' = "Material::new"
        /\ q_args' = [emission_color |-> qc, emission_strength |-> qs,
                      diffusion_coefficients |-> qd, reflection_coeff |-> qf]
        /\ q_result' = Material_new(qc, qs, qd, qf)
    /\ UNCHANGED ovars

\* Material::default()
CallMaterialDefault ==
    /\ q_op = "idle"
    /\ q_op' = "Material::default"
    /\ q_args' = << >>
    /\ q_result' = [kind |-> "Ok", value |-> default_material]
    /\ UNCHANGED ovars

\* diffused_color(source_color, object_diffusion_coefficient, source_ray,
\* surface_normal_vector)
CallDiffusedColor ==
    /\ q_op = "idle"
    /\ \E qc \in DiffusedColors, qd \in DiffusedCoefficients, qr \in DiffusedRays, qn \in DiffusedNormals :
        /\ q_op' = "diffused_color"
        /\ q_args' = [source_color |-> qc, object_diffusion_coefficient |-> qd,
                      source_ray |-> qr, surface_normal_vector |-> qn]
        /\ q_result' = diffused_color(qc, qd, qr, qn)
    /\ UNCHANGED ovars

ONext ==
    \/ CallDiffusedColor
    \/ CallColorAdd
    \/ CallColorMulF64
    \/ CallDiffusionCoefficientNew
    \/ CallToDiffusionCoefficient
    \/ CallMaterialNew
    \/ CallMaterialDefault

\* the calls of the colour and material functions, no image being made
SpecOptic == QueryInit /\ [][ONext]_vars

Init == QInit /\ RInit

Next ==
    \/ make_image
    \/ trace_pixel_color
    \/ start_sample
    \/ bounce_step
    \/ sum_sample
    \/ finish_pixel
    \/ write_pixel

\* the calls of Grid::make_image
Spec == Init /\ [][Next]_vars

\* ------------------------------------------------------------------------
\* Properties of Ray::intersect and Ray::first_point_hit_by_ray
\* ------------------------------------------------------------------------

\* the quantities of the quadratic for the ray and the (first) object queried
q_unit == normalize(q_ray.direction)
q_shape == q_objects[1].shape
q_co == new_from_points(q_shape.center, q_ray.origin)
q_b == quad_b(q_unit.v, q_shape.center, q_ray.origin)
q_delta == quad_delta(q_b, quad_c(q_shape.center, q_ray.origin, q_shape.radius))

IntersectCalled == q_op = "intersect" /\ q_unit.ok

\* C4: when the discriminant is greater than epsilon, Ray::intersect returns
\* the smallest non-negative root as hit_distance (the first root when it is
\* non-negative, otherwise the second root when that one is non-negative, as
\* for an origin strictly inside the sphere) and returns no intersection only
\* when both roots are negative.
C4_SmallestNonNegativeRoot ==
    (IntersectCalled /\ q_delta > eps) =>
        LET t1 == first_distance(q_b, q_delta)
            t2 == second_distance(q_b, q_delta)
        IN  IF t1 >= 0 THEN q_result.kind = "Some" /\ q_result.hit_distance = t1
            ELSE IF t2 >= 0 THEN q_result.kind = "Some" /\ q_result.hit_distance = t2
            ELSE q_result.kind = "None"

\* C5: a ray whose origin is outside the sphere and whose direction points
\* away from it (unit direction . CO > 0) gets no intersection, whatever the
\* sign of the discriminant, and no returned hit has a negative hit_distance.
C5_AwayRayHitsNothing ==
    IntersectCalled =>
        /\ (/\ norme(q_co.x, q_co.y, q_co.z) > q_shape.radius
            /\ scalar_product(q_unit.v, q_co) > 0) => q_result.kind = "None"
        /\ q_result.kind = "Some" => q_result.hit_distance >= 0

FirstHitCalled == q_op = "first_point_hit_by_ray"

\* the places of the non-ignored objects the ray intersects
QCandidates ==
    { i \in 1..Len(q_objects) :
        /\ not_ignored(q_objects[i], q_ignore)
        /\ intersect(q_ray, q_objects[i].shape, i).kind = "Some" }

QDistance(i) == intersect(q_ray, q_objects[i].shape, i).hit_distance

\* C6: first_point_hit_by_ray returns Some(hit) iff at least one non-ignored
\* object is intersected; the hit returned is the intersection with the
\* object of minimum hit_distance, the latest in the list among equals.
C6_NearestHitLatestOnTie ==
    FirstHitCalled =>
        /\ q_result.kind = "Some" <=> QCandidates # {}
        /\ q_result.kind = "Some" =>
            /\ q_result.object \in QCandidates
            /\ q_result = intersect(q_ray, q_objects[q_result.object].shape,
                                    q_result.object)
            /\ \A j \in QCandidates :
                /\ QDistance(j) >= q_result.hit_distance
                /\ QDistance(j) = q_result.hit_distance => j <= q_result.object

\* C6 witness: two objects are hit at the same, minimum, distance and the
\* later one is returned.
C6_Witness ==
    /\ FirstHitCalled
    /\ q_result.kind = "Some"
    /\ \E j \in QCandidates :
        /\ j < q_result.object
        /\ QDistance(j) = q_result.hit_distance
        /\ q_objects[j].shape # q_objects[q_result.object].shape

\* C7: with ignore_object = Some(o), no hit on an object whose shape equals
\* o's shape is ever returned.
C7_IgnoredShapeNeverReturned ==
    (FirstHitCalled /\ q_ignore.some /\ q_result.kind = "Some") =>
        ~SphereEq(q_objects[q_result.object].shape, q_ignore.object.shape)

\* C7 witness: the ray starts on the surface of the ignored sphere, which is
\* in the list and which the ray re-intersects at distance 0, nearer than
\* the object returned.
C7_Witness ==
    /\ FirstHitCalled
    /\ q_ignore.some
    /\ q_result.kind = "Some"
    /\ \E i \in 1..Len(q_objects) :
        /\ SphereEq(q_objects[i].shape, q_ignore.object.shape)
        /\ norme(q_ray.origin.x - q_objects[i].shape.center.x,
                 q_ray.origin.y - q_objects[i].shape.center.y,
                 q_ray.origin.z - q_objects[i].shape.center.z)
             = q_objects[i].shape.radius
        /\ intersect(q_ray, q_objects[i].shape, i).kind = "Some"
        /\ intersect(q_ray, q_objects[i].shape, i).hit_distance = 0
        /\ q_result.hit_distance > 0

\* C8: for a ray of non-zero direction, first_point_hit_by_ray returns
\* Ok(None) whenever the scan finds no hit, for every object list (the empty
\* one included) and every ignore_object.
C8_NoHitIsOkNone ==
    (FirstHitCalled /\ q_unit.ok /\ QCandidates = {}) => q_result = NoHit

\* ------------------------------------------------------------------------
\* Properties of Grid::trace_pixel_color and Grid::make_image
\* ------------------------------------------------------------------------

\* what the nearest-hit search of the iteration about to run returns
search_result ==
    first_point_hit_by_ray(ray, objects, ignored_by(current_locals, objects))

\* an iteration of the bounce loop whose search finds nothing
MissStep == pc = "bounce" /\ pc' = "sum" /\ search_result.kind = "None"

\* C1: when the search finds nothing, the sample's light is the background
\* colour if no object was hit yet in this sample, and stays exactly the
\* light accumulated at the earlier hits if at least one object was hit.
C1_MissKeepsAccumulatedLight ==
    [][MissStep =>
         ray_light' = IF last_hit_sphere.some THEN ray_light
                      ELSE get_background_color]_vars

\* C2: a sample runs at most number_of_bounces iterations of the bounce
\* loop and so records at most number_of_bounces hits; with a budget of 0
\* it runs no search at all.
C2_AtMostBudgetIterations ==
    /\ bounce <= number_of_bounces
    /\ Len(path) <= number_of_bounces

\* C2, amended: a sample runs at least one and at most number_of_bounces + 1
\* iterations of the bounce loop and records at most one hit per iteration;
\* with a budget of 0 it runs exactly one search.
C2_AtMostBudgetPlusOneIterations ==
    /\ bounce <= number_of_bounces + 1
    /\ Len(path) <= bounce
    /\ pc = "sum" => bounce >= 1
    /\ (pc = "sum" /\ number_of_bounces = 0) => bounce = 1

\* C2 witness: a sample ends having run number_of_bounces + 1 iterations,
\* every one of them a hit, for a budget of at least 1.
C2_Witness ==
    /\ pc = "sum"
    /\ number_of_bounces >= 1
    /\ bounce = number_of_bounces + 1
    /\ Len(path) = number_of_bounces + 1

RECURSIVE SumOf(_, _)
\* the sum over a sequence of colours of the channel named
SumOf(lights, channel) ==
    IF lights = << >> THEN 0
    ELSE Head(lights)[channel] + SumOf(Tail(lights), channel)

\* per channel, the sum of the lights divided by their number, truncated
MeanOf(lights) ==
    Color(as_u8(SumOf(lights, "r"), Len(lights)),
          as_u8(SumOf(lights, "g"), Len(lights)),
          as_u8(SumOf(lights, "b"), Len(lights)))

\* C3: after the N samples of a pixel, the colour of the pixel is, per
\* channel, the sum of the N samples' lights divided by N and truncated to
\* 8 bits; N samples of equal light L give the colour L.
C3_PixelIsMeanOfSamples ==
    pc = "write" =>
        /\ Len(sample_lights) = number_of_points_per_pixel
        /\ pixel_color = MeanOf(sample_lights)

\* C9: two runs of make_image on the same scene with the same samples per
\* pixel and the same bounce budget end alike and, when they complete,
\* leave identical rasters.
C9_EqualRunsEqualRasters ==
    \A r1, r2 \in 1..MaxRuns :
        (outcome[r1] \in {"Ok", "Err", "Panic"} /\ outcome[r2] \in {"Ok", "Err", "Panic"}) =>
            /\ outcome[r1] = outcome[r2]
            /\ colors[r1] = colors[r2]

\* C9 witness: two runs have completed on a raster that is not uniform, the
\* stream having been drawn from.
C9_Witness ==
    /\ outcome[1] = "Ok"
    /\ outcome[2] = "Ok"
    /\ rng # seed_from_u64
    /\ \E i, k \in Rows, j, l \in Columns : colors[2][i][j] # colors[2][k][l]

\* the pixel being traced, had the stream handed to its tracing been s
this_pixel_traced(s) ==
    pixel_traced(objects, number_of_points_per_pixel, number_of_bounces,
                 pixel_width_index, pixel_height_index, s)

\* C10: the colour trace_pixel_color computes for a pixel depends only on
\* the scene, the sample count, the bounce budget and the pixel's
\* coordinates: it is the colour the pixel gets when no pixel was traced
\* before it, whichever pixels were.
C10_PixelColorIgnoresOtherPixels ==
    pc = "write" => pixel_color = this_pixel_traced(seed_from_u64).color

\* C10, amended: the colour depends only on the scene, the sample count,
\* the bounce budget, the pixel's coordinates and the state the stream is in
\* when the tracing of the pixel begins; the stream is the only state the
\* pixels before it hand on.
C10_PixelColorDependsOnStreamToo ==
    pc = "write" =>
        /\ this_pixel_traced(entry_rng).kind = "Ok"
        /\ pixel_color = this_pixel_traced(entry_rng).color
        /\ rng = this_pixel_traced(entry_rng).rng

\* C10 witness: a pixel traced after others, on a stream they drew from,
\* gets a colour other than the one it gets on the fresh stream.
C10_Witness ==
    /\ pc = "write"
    /\ pixel_width_index + pixel_height_index > 0
    /\ entry_rng # seed_from_u64
    /\ this_pixel_traced(seed_from_u64).kind = "Ok"
    /\ pixel_color # this_pixel_traced(seed_from_u64).color

\* C11: when the tracing of a pixel returns an error, make_image returns
\* that error at once: the call stands idle in the step the error occurs, its
\* raster is written no more (no later pixel is traced, nothing is retried)
\* and its outcome stays the error, never Ok.
C11_FirstErrorAbortsTheRender ==
    [][\A r \in 1..MaxRuns :
         /\ (outcome[r] # "Err" /\ outcome'[r] = "Err") =>
                (r = run /\ pc' = "idle" /\ colors' = colors /\ UNCHANGED pixel_vars)
         /\ outcome[r] = "Err" => (outcome'[r] = "Err" /\ colors'[r] = colors[r])]_vars

\* C11 witness: a call ended in an error at a pixel later than the first, a
\* pixel before it written, the pixels after it left as they were.
C11_Witness ==
    /\ pc = "idle"
    /\ run >= 1
    /\ outcome[run] = "Err"
    /\ pixel_width_index = 1
    /\ pixel_height_index = 0
    /\ colors[run][0][0] # BLACK
    /\ \A row \in Rows, column \in Columns :
          (row > 0 \/ column > 0) => colors[run][row][column] = BLACK

\* the material neither emits nor diffuses green or blue
IsRedDiffuser(material) ==
    /\ material.emission_color = BLACK
    /\ material.emission_strength = 0
    /\ material.diffusion_coefficients.dg = 0
    /\ material.diffusion_coefficients.db = 0

\* the sample under way hit a red diffuser, then a white light of strength 1
\* that diffuses nothing
RedThenLight ==
    /\ Len(path) = 2
    /\ IsRedDiffuser(objects[path[1]].material)
    /\ objects[path[2]].material = LightMaterial

\* C12: with one sample per pixel and a bounce budget of 1, a pixel whose
\* primary ray hits a non-emissive sphere of diffusion (dr, 0, 0) and whose
\* bounced ray hits a white light of strength 1 has green and blue 0 and a
\* red channel of at most 255 * dr; for dr = 1 its colour is RED.
C12_RedSphereLitByWhiteLight ==
    (/\ pc = "write"
     /\ number_of_points_per_pixel = 1
     /\ number_of_bounces = 1
     /\ RedThenLight) =>
        /\ pixel_color.g = 0
        /\ pixel_color.b = 0
        /\ pixel_color.r * ONE <= U8_MAX * objects[path[1]].material.diffusion_coefficients.dr
        /\ objects[path[1]].material.diffusion_coefficients.dr = ONE => pixel_color = RED

\* C12 witness: such a pixel of the scene of test_trace_pixel_color is RED.
C12_Witness ==
    /\ pc = "write"
    /\ number_of_points_per_pixel = 1
    /\ number_of_bounces = 1
    /\ RedThenLight
    /\ objects[path[1]].material.diffusion_coefficients.dr = ONE
    /\ pixel_color = RED

\* ------------------------------------------------------------------------
\* Properties of the colour and material functions
\* ------------------------------------------------------------------------

Channels == { "r", "g", "b" }

\* v is the float num / den (den > 0) truncated toward zero and clamped
\* into 0 .. 255
IsClampedTruncation(v, num, den) ==
    /\ v \in 0..U8_MAX
    /\ IF num < 0 THEN v = 0
       ELSE IF num >= (U8_MAX + 1) * den THEN v = U8_MAX
       ELSE v * den <= num /\ num < (v + 1) * den

\* C13: colour arithmetic is clamped and never wraps or panics: a sum is per
\* channel min(255, a + b), a product by a float k is per channel the
\* truncation of c * k clamped into [0, 255], for negative k and for k that
\* makes c * k exceed 255 as well.
C13_ColorArithmeticIsClamped ==
    /\ q_op = "Color + Color" =>
        /\ q_result.kind = "Ok"
        /\ \A ch \in Channels :
            q_result.value[ch] =
                IF q_args.a[ch] + q_args.b[ch] < U8_MAX
                THEN q_args.a[ch] + q_args.b[ch] ELSE U8_MAX
    /\ q_op = "Color * f64" =>
        /\ q_result.kind = "Ok"
        /\ \A ch \in Channels :
            IsClampedTruncation(q_result.value[ch], q_args.c[ch] * q_args.k.num,
                                q_args.k.den)

\* C13 witness: Color(250,0,0) + Color(10,0,0) = Color(255,0,0).
C13_Witness ==
    /\ q_op = "Color + Color"
    /\ q_args.a = Color(250, 0, 0)
    /\ q_args.b = Color(10, 0, 0)
    /\ q_result.value = Color(255, 0, 0)

\* C14: DiffusionCoefficient::new returns an error iff some channel is
\* outside [0, 1]; Material::new returns an error iff the reflection
\* coefficient or the emission strength is outside [0, 1]; every material
\* built by Material::new or Material::default, and every diffusion
\* coefficient built, has its coefficients within [0, 1].
C14_CoefficientsWithinUnitRange ==
    /\ q_op = "DiffusionCoefficient::new" =>
        (q_result.kind = "Err" <=>
            \E ch \in { "dr", "dg", "db" } : q_args[ch] < 0 \/ q_args[ch] > ONE)
    /\ q_op = "Material::new" =>
        (q_result.kind = "Err" <=>
            \/ q_args.reflection_coeff < 0 \/ q_args.reflection_coeff > ONE
            \/ q_args.emission_strength < 0 \/ q_args.emission_strength > ONE)
    /\ (q_op \in { "DiffusionCoefficient::new", "Color::to_diffusion_coefficient" }
            /\ q_result.kind = "Ok") =>
        \A ch \in { "dr", "dg", "db" } :
            0 <= q_result.value[ch] /\ q_result.value[ch] <= ONE
    /\ (q_op \in { "Material::new", "Material::default" } /\ q_result.kind = "Ok") =>
        /\ 0 <= q_result.value.emission_strength
        /\ q_result.value.emission_strength <= ONE
        /\ 0 <= q_result.value.reflection_coeff
        /\ q_result.value.reflection_coeff <= ONE
        /\ \A ch \in { "dr", "dg", "db" } :
            /\ 0 <= q_result.value.diffusion_coefficients[ch]
            /\ q_result.value.diffusion_coefficients[ch] <= ONE

\* C14 witness: DiffusionCoefficient::new refuses coefficients whose red
\* channel is within [0, 1] and whose blue channel is above 1.
C14_Witness ==
    /\ q_op = "DiffusionCoefficient::new"
    /\ q_args.dr = ONE
    /\ q_args.dg = 0
    /\ q_args.db = ONE + 1
    /\ q_result.kind = "Err"

\* ------------------------------------------------------------------------
\* Properties of Sphere
\* ------------------------------------------------------------------------

\* C15: every Sphere constructed by new_from_radius or new_from_points, or
\* reached by an update of its fields, has radius >= 0.
C15_RadiusNonNegative ==
    (q_op \in { "Sphere::new_from_radius", "Sphere::new_from_points", "sphere.radius =" }) =>
        q_result.value.radius >= 0

HorizonCalled == q_op = "source_is_above_horizon"

\* the outward normal at the surface point and the vector to the source
horizon_normal == PointSub(q_args.sphere_point, q_args.sphere.center)
horizon_to_source == PointSub(q_args.source, q_args.sphere_point)

\* C16 as stated: PointNotOnSphere iff the point is off the surface, and on
\* the surface the answer is true iff normal . (source - point) >= 0, false
\* otherwise.
C16_HorizonIsSignOfDotProduct ==
    HorizonCalled =>
        /\ (q_result = ErrValue("PointNotOnSphere")) <=>
               ~point_is_on_sphere(q_args.sphere, q_args.sphere_point)
        /\ point_is_on_sphere(q_args.sphere, q_args.sphere_point) =>
               q_result = OkValue(scalar_product(horizon_normal, horizon_to_source) >= 0)

\* C16: PointNotOnSphere iff the point is off the surface; on the surface,
\* the zero-magnitude error when the point is the center or the source is the
\* point, and otherwise true iff normal . (source - point) >= 0, else false.
C16_HorizonIsSignOfDotProductOfNonZeroVectors ==
    HorizonCalled =>
        /\ (q_result = ErrValue("PointNotOnSphere")) <=>
               ~point_is_on_sphere(q_args.sphere, q_args.sphere_point)
        /\ point_is_on_sphere(q_args.sphere, q_args.sphere_point) =>
               IF q_args.sphere_point = q_args.sphere.center
                  \/ q_args.source = q_args.sphere_point
               THEN q_result = ErrValue("VectorHasNormeZero")
               ELSE q_result = OkValue(scalar_product(horizon_normal, horizon_to_source) >= 0)

\* a source below the horizon of a point on the surface
C16_Witness ==
    /\ HorizonCalled
    /\ point_is_on_sphere(q_args.sphere, q_args.sphere_point)
    /\ q_args.source # q_args.sphere_point
    /\ scalar_product(horizon_normal, horizon_to_source) < 0
    /\ q_result = OkValue(FALSE)

VisibleCalled == q_op = "source_is_visible_from_sphere_point"

\* the horizon test and the search the call is specified by
visible_sphere == object_at(q_objects, q_args.sphere_index).shape
visible_above == source_is_above_horizon(visible_sphere, q_args.sphere_point, q_args.source)
visible_search ==
    first_point_hit_by_ray(Ray_new_from_points(q_args.source, q_args.sphere_point),
                           q_objects, NoneObject)

\* C17: NoSphereAtIndex when the index is not one of the list, whatever the
\* other arguments; Ok(false) and no ray cast when the source is below the
\* horizon; the RayBetweenPointsDoesNotHitPoint error, not Ok(false), when
\* the ray cast from the source toward the point hits no object.
C17_VisibilityErrorsAndShortCircuit ==
    VisibleCalled =>
        /\ ~(q_args.sphere_index \in 0..(Len(q_objects) - 1)) =>
               q_result = ErrValue("NoSphereAtIndex") /\ q_args.cast = << >>
        /\ (q_args.sphere_index \in 0..(Len(q_objects) - 1)) =>
               /\ visible_above = OkValue(FALSE) =>
                      q_result = OkValue(FALSE) /\ q_args.cast = << >>
               /\ (visible_above = OkValue(TRUE) /\ visible_search.kind = "None") =>
                      /\ q_result = ErrValue("RayBetweenPointsDoesNotHitPoint")
                      /\ Len(q_args.cast) = 1

\* a source above the horizon whose ray toward the point hits nothing
C17_Witness ==
    /\ VisibleCalled
    /\ q_args.sphere_index \in 0..(Len(q_objects) - 1)
    /\ visible_above = OkValue(TRUE)
    /\ visible_search.kind = "None"
    /\ q_result = ErrValue("RayBetweenPointsDoesNotHitPoint")

\* whole units of a fixed-point coordinate (the query points are whole)
Units(a) == a \div ONE
UnitDot(u, v) == Units(u.x) * Units(v.x) + Units(u.y) * Units(v.y) + Units(u.z) * Units(v.z)

\* the segment from source s to point p passes through the ball of `shape`:
\* some s + t (p - s) with 0 < t < 1 is closer to the center than the
\* radius (d = p - s, w = center - s, in whole units)
segment_meets(shape, s, p, d, w) ==
    \/ UnitDot(w, w) < Units(shape.radius) * Units(shape.radius)
    \/ UnitDot(PointSub(p, shape.center), PointSub(p, shape.center))
           < Units(shape.radius) * Units(shape.radius)
    \/ /\ 0 < UnitDot(w, d) /\ UnitDot(w, d) < UnitDot(d, d)
       /\ UnitDot(w, w) * UnitDot(d, d) - UnitDot(w, d) * UnitDot(w, d)
              < Units(shape.radius) * Units(shape.radius) * UnitDot(d, d)

stands_between(shape, s, p) ==
    segment_meets(shape, s, p, PointSub(p, s), PointSub(shape.center, s))

\* the other objects of the list that stand between the source and the point
visible_occluders ==
    { i \in 1..Len(q_objects) :
        /\ i # q_args.sphere_index + 1
        /\ q_objects[i].shape # visible_sphere
        /\ stands_between(q_objects[i].shape, q_args.source, q_args.sphere_point) }

\* the list without its occluders
RECURSIVE without_occluders(_, _)
without_occluders(list, i) ==
    IF i > Len(list) THEN << >>
    ELSE IF i \in visible_occluders THEN without_occluders(list, i + 1)
    ELSE << list[i] >> \o without_occluders(list, i + 1)

\* the place of the queried sphere in the list without its occluders
index_without_occluders ==
    q_args.sphere_index - Cardinality({ i \in visible_occluders : i < q_args.sphere_index + 1 })

\* the cast ray's unit direction and length are exact at the resolution
\* 1 / ONE, so that the arithmetic on it is the f64 arithmetic
exact_unit(d, n, nd) ==
    /\ n * n = d.x * d.x + d.y * d.y + d.z * d.z
    /\ nd.ok
    /\ nd.v.x * n = d.x * ONE /\ nd.v.y * n = d.y * ONE /\ nd.v.z * n = d.z * ONE

cast_is_exact ==
    exact_unit(PointSub(q_args.sphere_point, q_args.source),
               norme(q_args.sphere_point.x - q_args.source.x,
                     q_args.sphere_point.y - q_args.source.y,
                     q_args.sphere_point.z - q_args.source.z),
               normalize(PointSub(q_args.sphere_point, q_args.source)))

\* C18: with the source above the horizon the answer is true iff the nearest
\* hit of the ray from the source toward the point is the point; a sphere
\* standing between the source and the point makes it false, and the same
\* query on the list without that sphere answers true.
C18_VisibleIffNothingStandsBetween ==
    (VisibleCalled /\ q_args.sphere_index \in 0..(Len(q_objects) - 1)
                   /\ visible_above = OkValue(TRUE) /\ cast_is_exact) =>
        /\ (q_result = OkValue(TRUE)) <=>
               (visible_search.kind = "Some"
                /\ PointEq(q_args.sphere_point, visible_search.point_hit))
        /\ visible_occluders # {} =>
               /\ q_result = OkValue(FALSE)
               /\ source_is_visible_from_sphere_point(
                      without_occluders(q_objects, 1), index_without_occluders,
                      q_args.sphere_point, q_args.source) = OkValue(TRUE)

ReflectedCalled == q_op = "reflected_ray"

reflected_above ==
    source_is_above_horizon(q_args.object, q_args.surface_point, q_args.source)

\* N, the unit normal at the point, and R, the unit vector to the source
reflected_N == normalize(PointSub(q_args.surface_point, q_args.object.center)).v
reflected_R == normalize(PointSub(q_args.source, q_args.surface_point)).v

\* 2 (N.R) N - R
mirror_image(N, R) == VectorSub(ScalarMulVector(2 * scalar_product(N, R), N), R)

\* two normalized vectors agree to within 5 / ONE on every coordinate
close_units(a, b) ==
    /\ a.ok /\ b.ok
    /\ Abs(a.v.x - b.v.x) <= 5 /\ Abs(a.v.y - b.v.y) <= 5 /\ Abs(a.v.z - b.v.z) <= 5

\* d is parallel to m, in the same sense
parallel(d, m) == close_units(normalize(d), normalize(m))

\* C19: reflected_ray fails with SourceNotVisible when the source is below
\* the horizon at p; otherwise the ray starts at p and its direction is
\* parallel to 2 (N.R) N - R, the mirror image of R about the normal N.
C19_ReflectedRayIsMirrorImage ==
    ReflectedCalled =>
        /\ reflected_above = OkValue(FALSE) =>
               q_result = ErrValue("SourceNotVisibleFromPoint")
        /\ reflected_above = OkValue(TRUE) =>
               /\ q_result.kind = "Ok"
               /\ q_result.value.origin = q_args.surface_point
               /\ parallel(q_result.value.direction, mirror_image(reflected_N, reflected_R))

\* C19 on the inputs of test_reflected_ray: the ray points toward (-3, 3, 3)
C19_TestReflectedRay ==
    (ReflectedCalled /\ q_args.object = ReflectedTestSphere
                     /\ q_args.surface_point = ReflectedTestPoint
                     /\ q_args.source = ReflectedTestSource) =>
        /\ q_result.kind = "Ok"
        /\ parallel(q_result.value.direction,
                    PointSub(Point(-3 * ONE, 3 * ONE, 3 * ONE), ReflectedTestPoint))

DiffusedCalled == q_op = "diffused_color"

\* the dot product of the normal (in whole units) and the reversed direction
\* of the source ray: ONE times cos(angle) times the normal's length
reversed_dot ==
    -(Units(q_args.surface_normal_vector.x) * q_args.source_ray.direction.x
      + Units(q_args.surface_normal_vector.y) * q_args.source_ray.direction.y
      + Units(q_args.surface_normal_vector.z) * q_args.source_ray.direction.z)

normal_length == Units(norme_vec(q_args.surface_normal_vector))

\* `out` is source * coefficient * cos(angle), cut to a u8 after each of the
\* two products: never above the product and less than 2 below it
is_diffused_channel(out, source, coefficient) ==
    /\ out * ONE * ONE * normal_length <= source * coefficient * reversed_dot
    /\ (out + 2) * ONE * ONE * normal_length > source * coefficient * reversed_dot
    /\ out <= source

UniformCalled == q_op = "uniform_weighted_random_ray"

\* the dot product of two vectors, in whole arithmetic
RawDot(u, v) == u.x * v.x + u.y * v.y + u.z * v.z

\* the call took exactly the first draw of its stream
took_one_draw == q_args.stream # << >> /\ q_args.rest = Tail(q_args.stream)

\* C21: uniform_weighted_random_ray takes exactly one draw d and returns the
\* ray from the point along d when normal . d >= 0 and along -d otherwise,
\* so normal . direction >= 0; an empty stream gives IteratorDepleted.
C21_UniformRayInOutwardHemisphere ==
    UniformCalled =>
        /\ q_args.stream = << >> =>
               q_result = ErrValue("IteratorDepleted") /\ q_args.rest = << >>
        /\ q_args.stream # << >> =>
               /\ took_one_draw
               /\ q_result.kind = "Ok"
               /\ q_result.value.origin = q_args.point
               /\ q_result.value.direction =
                      IF RawDot(q_args.normal, Head(q_args.stream)) >= 0
                      THEN Head(q_args.stream)
                      ELSE Point(-Head(q_args.stream).x, -Head(q_args.stream).y,
                                 -Head(q_args.stream).z)
               /\ RawDot(q_args.normal, q_result.value.direction) >= 0

\* a draw that points into the surface and is returned flipped
C21_Witness ==
    /\ UniformCalled
    /\ q_args.stream # << >>
    /\ RawDot(q_args.normal, Head(q_args.stream)) < 0
    /\ q_result.kind = "Ok"
    /\ RawDot(q_args.normal, q_result.value.direction) > 0
    /\ Len(q_args.rest) = 1

CosWeightedCalled == q_op = "cos_weighted_random_ray_unit_sphere"

\* the squared length of a fixed-point vector is ONE^2 to within 0.5 %
is_unit(v) ==
    /\ RawDot(v, v) >= ONE * ONE - 5 * ONE
    /\ RawDot(v, v) <= ONE * ONE + 5 * ONE

\* the sum normalize(normal) + p of the call, when the normal is not zero
cos_weighted_sum ==
    VectorAdd(normalize(q_args.normal).v, Head(q_args.stream))

\* C22: cos_weighted_random_ray_unit_sphere takes exactly one draw p and
\* returns the ray from the hit point along normalize(normalize(normal) + p),
\* of unit length with normal . direction >= 0; IteratorDepleted on an empty
\* stream; the zero-magnitude error for a zero normal or p = -normalize(normal).
C22_CosWeightedRayIsNormalizedSum ==
    CosWeightedCalled =>
        /\ q_args.stream = << >> =>
               q_result = ErrValue("IteratorDepleted") /\ q_args.rest = << >>
        /\ q_args.stream # << >> =>
               /\ took_one_draw
               /\ IF RawDot(q_args.normal, q_args.normal) = 0
                  THEN q_result = ErrValue("VectorHasNormeZero")
                  ELSE IF RawDot(cos_weighted_sum, cos_weighted_sum) = 0
                  THEN q_result = ErrValue("VectorHasNormeZero")
                  ELSE /\ q_result.kind = "Ok"
                       /\ q_result.value.origin = q_args.point
                       /\ q_result.value.direction = normalize(cos_weighted_sum).v
                       /\ is_unit(q_result.value.direction)
                       /\ RawDot(q_args.normal, q_result.value.direction) >= 0

\* a draw at right angles to a normal that is not of unit length
C22_Witness ==
    /\ CosWeightedCalled
    /\ q_args.stream # << >>
    /\ RawDot(q_args.normal, q_args.normal) > ONE * ONE
    /\ RawDot(q_args.normal, Head(q_args.stream)) = 0
    /\ q_result.kind = "Ok"
    /\ is_unit(q_result.value.direction)
    /\ RawDot(q_args.normal, q_result.value.direction) > 0

\* C23: a vector of zero magnitude is never normalized: the vector between
\* two identical points is the zero-magnitude error, and Ray::intersect on a
\* ray whose direction is the zero vector returns that error, not a hit or
\* a miss.
C23_ZeroVectorIsAnError ==
    /\ q_op = "Vector::new_from_points" =>
           IF q_args.origin = q_args.destination
           THEN q_result = ErrValue("VectorHasNormeZero")
           ELSE q_result = OkValue(PointSub(q_args.destination, q_args.origin))
    /\ (q_op = "intersect" /\ q_ray.direction = Point(0, 0, 0)) =>
           q_result = ErrValue("VectorHasNormeZero")
    /\ (q_op = "intersect" /\ q_ray.direction # Point(0, 0, 0)) =>
           q_result.kind \in {"Some", "None"}

\* a ray of zero direction tested against a sphere its origin lies in
C23_Witness ==
    /\ q_op = "intersect"
    /\ q_ray.direction = Point(0, 0, 0)
    /\ q_ray.origin = q_objects[1].shape.center
    /\ q_result = ErrValue("VectorHasNormeZero")

\* ------------------------------------------------------------------------
\* Properties of the bounce loop
\* ------------------------------------------------------------------------

\* an iteration of the bounce loop whose search finds an object and whose
\* next ray is drawn without error
HitStep == pc = "bounce" /\ search_result.kind = "Some" /\ pc' \in {"bounce", "sum"}

hit_material == objects[search_result.object].material

emitted_by(material) ==
    ColorMulF64(material.emission_color, F64(material.emission_strength, ONE))

\* C24: at a hit the light grows by (throughput before the hit) x (emission
\* colour x emission strength) of the hit material, and the throughput is
\* then multiplied by its diffusion coefficients: at the first hit the light
\* is the full emission, whatever the material diffuses.
C24_EmissionBeforeAttenuation ==
    [][HitStep =>
         /\ ray_light' = ColorAdd(ray_light, ColorMulColor(emitted_by(hit_material), ray_color))
         /\ ray_color' = DiffusionMulColor(hit_material.diffusion_coefficients, ray_color)
         /\ (ray_color = WHITE /\ ray_light = BLACK) =>
                ray_light' = emitted_by(hit_material)]_vars

\* the first hit was on a surface that emits (200, 100, 50) and diffuses
\* half of the light: the light is the whole emission, the throughput halved
C24_Witness ==
    /\ pc \in {"bounce", "sum"}
    /\ Len(path) = 1
    /\ objects[path[1]].material.emission_color = Color(200, 100, 50)
    /\ objects[path[1]].material.diffusion_coefficients
           = DiffusionCoefficient(ONE \div 2, ONE \div 2, ONE \div 2)
    /\ ray_light = Color(200, 100, 50)
    /\ ray_color = Color(127, 127, 127)

\* the sample under way left the bounce loop because its throughput is black
LeftOnBlack ==
    pc = "sum" /\ bounce >= 1 /\ Len(path) = bounce /\ ray_color = BLACK

RECURSIVE bouncing_on(_, _, _)
\* the bounce loop without its early exit, from the locals s: it goes on
\* until the budget is spent or a search finds nothing
bouncing_on(s, objs, budget) ==
    IF s.status \in {"Err", "Panic"} \/ ~loop_continues(s.bounce, budget) THEN s
    ELSE IF s.status = "break" /\ Len(s.path) < s.bounce THEN s
    ELSE bouncing_on(bounce_iteration([s EXCEPT !.status = "loop"], objs), objs, budget)

\* C25: the exit taken when the throughput is exactly black changes nothing:
\* the light of the sample is the light it would have if the loop went on
\* until the budget is spent or the path leaves the scene.
C25_EarlyExitIsOnlyAnOptimisation ==
    LeftOnBlack =>
        LET t == bouncing_on(current_locals, objects, number_of_bounces)
        IN  t.status \notin {"Err", "Panic"} => t.ray_light = ray_light

\* what the hit of the step makes of the throughput
throughput_after_hit ==
    DiffusionMulColor(hit_material.diffusion_coefficients, ray_color)

\* C26: in an iteration the next direction is drawn only after the light,
\* the throughput and the black-throughput check: a hit that makes the
\* throughput exactly black draws nothing from the stream, a miss draws
\* nothing, and any other hit draws once.
C26_NoDrawOnExit ==
    [][pc = "bounce" =>
         /\ search_result.kind = "None" => rng' = rng
         /\ (search_result.kind = "Some" /\ throughput_after_hit = BLACK) => rng' = rng
         /\ (search_result.kind = "Some" /\ throughput_after_hit # BLACK) =>
                rng' = rng_next(rng)]_vars

\* place of a raster cell in row-major order
row_major(row, column) == row * GRID_WIDTH + column

\* the cell the call is at is the last of the raster
at_last_cell ==
    pixel_height_index = GRID_HEIGHT - 1 /\ pixel_width_index = GRID_WIDTH - 1

\* C27: in a make_image call that succeeds every raster cell is written
\* exactly once, in row-major order, with the colour traced for that pixel,
\* and the dimensions of the raster stay as they are: the call starts at
\* cell (0, 0), the raster changes only in the write of the cell the call is
\* at, which gets the colour the tracing of that pixel returned, each write
\* moves the call to the row-major successor of the cell, the call returns
\* Ok only in the write of the last cell, and the cells the call has not
\* reached are as they were.
C27_WrittenOnceInRowMajorOrder ==
    /\ [](/\ DOMAIN colors = 1..MaxRuns
          /\ \A r \in 1..MaxRuns :
                /\ DOMAIN colors[r] = Rows
                /\ \A row \in Rows : DOMAIN colors[r][row] = Columns
          /\ pc # "idle" =>
                \A row \in Rows, column \in Columns :
                    row_major(row, column) > row_major(pixel_height_index, pixel_width_index)
                        => colors[run][row][column] = default_colors[row][column])
    /\ [][/\ (pc = "idle" /\ pc' # "idle") =>
                (pixel_height_index' = 0 /\ pixel_width_index' = 0)
          /\ pc \notin {"idle", "write"} => (colors' = colors /\ UNCHANGED pixel_vars)
          /\ pc = "write" =>
                /\ pixel_color = this_pixel_traced(entry_rng).color
                /\ colors' = [colors EXCEPT
                                ![run][pixel_height_index][pixel_width_index] = pixel_color]
                /\ IF at_last_cell
                   THEN pc' = "idle" /\ outcome'[run] = "Ok"
                   ELSE /\ pc' = "pixel"
                        /\ row_major(pixel_height_index', pixel_width_index')
                              = row_major(pixel_height_index, pixel_width_index) + 1
                        /\ pixel_height_index' \in Rows
                        /\ pixel_width_index' \in Columns
          /\ \A r \in 1..MaxRuns :
                (outcome[r] # "Ok" /\ outcome'[r] = "Ok") =>
                    (r = run /\ pc = "write" /\ at_last_cell)]_vars

\* C27 witness: a call has returned Ok at the last cell of a raster that
\* was written with a colour other than the one it had, two cells differing.
C27_Witness ==
    /\ pc = "idle"
    /\ run >= 1
    /\ outcome[run] = "Ok"
    /\ at_last_cell
    /\ colors[run] # default_colors
    /\ \E i, k \in Rows, j, l \in Columns : colors[run][i][j] # colors[run][k][l]

\* Ray::intersect was called and returned a HitInfo
IntersectHit == q_op = "intersect" /\ q_result.kind = "Some"

\* the sphere the call tested and the unit direction of the ray
tested_shape == q_objects[1].shape
unit_direction == normalize(q_ray.direction).v

\* the discriminant of the call
intersect_delta ==
    quad_delta(quad_b(unit_direction, tested_shape.center, q_ray.origin),
               quad_c(tested_shape.center, q_ray.origin, tested_shape.radius))

\* two lengths equal to within 0.005, the rounding of the fixed point
same_length(a, b) == Abs(a - b) <= 5

\* C28: every HitInfo Ray::intersect returns refers to the object tested,
\* has point_hit = origin + hit_distance x (unit direction) on the surface
\* of that sphere, and normal = point_hit - center, of magnitude equal to
\* the radius and pointing outward (away from the center); the tangent case,
\* hit_distance = -b/2, included.
C28_HitInfoIsOnTheSphere ==
    IntersectHit =>
        /\ q_result.object = 1
        /\ q_result.point_hit =
              PointAddVector(q_ray.origin,
                             ScalarMulVector(q_result.hit_distance, unit_direction))
        /\ same_length(norme_vec(PointSub(q_result.point_hit, tested_shape.center)),
                       tested_shape.radius)
        /\ q_result.normal = PointSub(q_result.point_hit, tested_shape.center)
        /\ same_length(norme_vec(q_result.normal), tested_shape.radius)
        /\ scalar_product(q_result.normal,
                          PointSub(q_result.point_hit, tested_shape.center)) >= 0
        /\ intersect_delta = 0 =>
              q_result.hit_distance =
                  tangent_distance(quad_b(unit_direction, tested_shape.center, q_ray.origin))

\* no channel of a is above the channel of b
no_channel_above(a, b) == a.r <= b.r /\ a.g <= b.g /\ a.b <= b.b

\* C29: across the bounces of one sample no channel of the throughput
\* (ray_color) ever increases: the sample starts with a white throughput,
\* every iteration of the bounce loop leaves each channel at or below its
\* value before, so that a channel that has reached 0 stays 0, and nothing
\* but the start of a sample and an iteration changes the throughput.
C29_ThroughputNeverIncreases ==
    [][/\ (pc = "sample" /\ pc' = "bounce") => ray_color' = WHITE
       /\ pc = "bounce" =>
            /\ no_channel_above(ray_color', ray_color)
            /\ ray_color.r = 0 => ray_color'.r = 0
            /\ ray_color.g = 0 => ray_color'.g = 0
            /\ ray_color.b = 0 => ray_color'.b = 0
       /\ pc \notin {"sample", "bounce"} => ray_color' = ray_color]_vars

\* C29 witness: a sample has hit twice; its first hit took the throughput
\* from white to a colour with a channel at 0 and a channel above 0, its
\* second hit took it lower.
C29_Witness ==
    /\ Len(path) >= 2
    /\ DiffusionMulColor(objects[path[1]].material.diffusion_coefficients, WHITE)
          \notin {WHITE, BLACK}
    /\ DiffusionMulColor(objects[path[1]].material.diffusion_coefficients, WHITE).g = 0
    /\ ray_color # DiffusionMulColor(objects[path[1]].material.diffusion_coefficients, WHITE)
    /\ ray_color.g = 0

\* the object of the scene is left out of the search under way
excluded_from_search(i) ==
    ~not_ignored(objects[i], ignored_by(current_locals, objects))

\* the object hit immediately before the search under way
last_hit == path[Len(path)]

\* the search under way returns a hit no farther than the hit on object i
found_no_farther_than(i) ==
    intersect(ray, objects[i].shape, i).kind = "Some" =>
        /\ search_result.kind = "Some"
        /\ search_result.hit_distance <= intersect(ray, objects[i].shape, i).hit_distance

\* C30: along the path of one sample two consecutive hits are never on
\* objects of equal shapes: the first search of the sample excludes nothing,
\* a later search excludes the object hit immediately before and every
\* object whose sphere compares equal to it, and no other object, hit
\* earlier or not; an object that is not excluded is a candidate of the
\* search.
C30_ConsecutiveHitsDifferInShape ==
    /\ \A k \in 1..(Len(path) - 1) :
          ~SphereEq(objects[path[k]].shape, objects[path[k + 1]].shape)
    /\ pc = "bounce" =>
          /\ path = << >> => \A i \in 1..Len(objects) : ~excluded_from_search(i)
          /\ path # << >> =>
                /\ last_hit_sphere = [some |-> TRUE, id |-> last_hit]
                /\ \A i \in 1..Len(objects) :
                      excluded_from_search(i) <=>
                          SphereEq(objects[i].shape, objects[last_hit].shape)
          /\ search_result.kind \in {"Some", "None"} =>
                \A i \in 1..Len(objects) :
                    ~excluded_from_search(i) => found_no_farther_than(i)
          /\ search_result.kind = "Some" => ~excluded_from_search(search_result.object)

\* C30 witness: a search is under way after a hit on an object that has a
\* twin of equal shape in the scene; the twin is excluded with it, and the
\* search returns an object of another shape.
C30_Witness ==
    /\ pc = "bounce"
    /\ path # << >>
    /\ excluded_from_search(last_hit)
    /\ \E i \in 1..Len(objects) : i # last_hit /\ excluded_from_search(i)
    /\ \E i \in 1..Len(objects) : ~excluded_from_search(i)
    /\ search_result.kind = "Some"
    /\ ~SphereEq(objects[search_result.object].shape, objects[last_hit].shape)

====
